---- MODULE Spec2Model ----
(***************************************************************************)
(* State-machine model of the ValoriumX simulator.                         *)
(*                                                                         *)
(*   Spec         the attestation-consensus ledger, achive/simulator_v8.py *)
(*   SpecV7       the same ledger as achive/simulator_v7.py has it         *)
(*   SpecLedgers  the attestation ledger and the mined ledger side by side *)
(*   SpecStandings  simulator_v8.py and EnhancedBlockchain side by side    *)
(*   SpecSlash    slash_node of that ledger on nodes of every standing     *)
(*   SpecRace     slash_node called from two rounds at the same time       *)
(*   SpecPow      the mined ledger, src/blockchain.py + src/structures.py  *)
(*   SpecStencil  the registry of software hashes, src/stencil.py          *)
(*   SpecFrag     the fragment store, achive/simulator_claude.py           *)
(*   SpecQuad     the quadrit codec, src/quadrits.py                       *)
(*   SpecDecode   the two decoders on the quadrit sequences handed to them *)
(*   SpecIdentity what a transaction's hash is taken of, src/simulator.py  *)
(*   SpecRecovery the main script of simulator_v8.py, run to its end       *)
(*   SpecEnhanced the rounds of EnhancedBlockchain and the attacks on its  *)
(*                nodes, achive/simulator_claude.py                        *)
(*                                                                         *)
(* SHA-2 is modelled as an injective function: a digest stands for the     *)
(* data serialised, under a tag naming its kind, so two digests are equal  *)
(* exactly when their preimages are.  The digest of a block, whose         *)
(* preimage holds the digest of the block before it, is written as its     *)
(* position in the table sha of the block digests taken so far.            *)
(* Reputation is counted in hundredths (1.0 is 100), money in units of     *)
(* 1/BalanceUnit; a reputation of EnhancedBlockchain is a fraction.        *)
(*                                                                         *)
(* The programs create no thread: simulator_v8.py:349-353 calls            *)
(* add_transaction and process_block_creation_cycle one after another, and *)
(* run_enhanced_simulation does the same with process_enhanced_consensus   *)
(* and simulate_network_attack.  A call is therefore one step, from the    *)
(* call to its return, and the steps of a behaviour are the calls in the   *)
(* order a caller makes them.  Every reading of the clock is later than    *)
(* the one before it.  SpecRace alone takes slash_node statement by        *)
(* statement, for what two callers at once would do to one node.           *)
(***************************************************************************)
EXTENDS Integers, Sequences, FiniteSets, TLC

VARIABLES
    \* hashlib: the block digests taken so far
    sha,
    \* simulator_v8.py: Blockchain, Stencil and the node objects
    chain, pending_transactions, balances, current_proposer_index,
    validator_nodes, neural_nodes, versions, stencil_log, now, round,
    \* simulator_v8.py, the main script: the statements of its loop that have
    \* been begun
    script,
    \* blockchain.py: Blockchain, and the block an auditor has tampered with
    pow_chain, pow_pending, pow_balances, pow_now, tampered,
    \* simulator_claude.py: DistributedMatrix, the fragments its log names as
    \* regenerating or as lost, and the payload handed to it
    node_fragments, fragment_locations, regeneration_count, loss_reports,
    regenerating_log, payload, failed_nodes,
    \* quadrits.py: the codec's input, its encoding and the decoded bytes
    q_input, q_quadrits, q_output, q_pc,
    \* simulator_v8.py: the calls of slash_node under way at the same time,
    \* each with its position and what it has read
    slashers,
    \* simulator_claude.py: EnhancedBlockchain.performance_metrics
    performance_metrics

v8vars   == <<chain, pending_transactions, balances, current_proposer_index,
              validator_nodes, neural_nodes, versions, stencil_log, now,
              round>>
powvars  == <<pow_chain, pow_pending, pow_balances, pow_now, tampered>>
fragvars == <<node_fragments, fragment_locations, regeneration_count,
              loss_reports, regenerating_log, payload, failed_nodes>>
quadvars == <<q_input, q_quadrits, q_output, q_pc>>
racevars == <<slashers>>
loopvars == <<script>>
enhvars  == <<performance_metrics>>
ledgervars == <<sha, v8vars, powvars, fragvars, quadvars, racevars, enhvars>>
vars     == <<ledgervars, loopvars>>

(***************************************************************************)
(* Bounds of the model                                                     *)
(***************************************************************************)
MaxClock == 2
MaxPowClock == 4
MaxNonce == 1
MaxFragments == 1
MaxRegenerations == 5
MaxLossReports == 4
MaxBytes == 2
MaxQuadrits == 5
MaxEnhancedRounds == 2
MaxAttacks == 2
MaxAttesters == 4
MaxV7Rounds == 4
MaxV7Clock == 4
MaxStencilLog == 3
MaxRounds == 3
MaxRegistrations == 1
InitialFunds == 2

(***************************************************************************)
(* General helpers                                                         *)
(***************************************************************************)
Min(a, b) == IF a < b THEN a ELSE b
Max(a, b) == IF a < b THEN b ELSE a

\* dict.get(key, 0) and dict[key] = value on a dict modelled as a function
DictGet(d, key) == IF key \in DOMAIN d THEN d[key] ELSE 0
DictSet(d, key, value) ==
    [a \in DOMAIN d \cup {key} |-> IF a = key THEN value ELSE d[a]]


(***************************************************************************)
(* hashlib: SHA-2 as an injective function                                 *)
(***************************************************************************)
\* hash_data(data): the digest of a serialisation stands for exactly it
hash_data(data) == [digest |-> data]

\* a string the code puts where a digest is expected
Literal(s) == [digest |-> [h |-> "literal", of |-> s]]

Known(tbl, data) == \E i \in 1..Len(tbl) : tbl[i] = data

\* the table of block digests once `data` is among them
remember(tbl, data) == IF Known(tbl, data) THEN tbl ELSE Append(tbl, data)

\* the digest of a block, written as its position in the table
abbreviated(tbl, data) ==
    [digest |->
        [h |-> "block",
         of |-> IF Known(tbl, data)
                THEN CHOOSE i \in 1..Len(tbl) : tbl[i] = data
                ELSE Len(tbl) + 1]]

zero_hash == Literal("0")
fake_rna == Literal("fake_rna")
no_hash == Literal("None")

(***************************************************************************)
(* simulator_v8.py, section 2: the core data structures                    *)
(***************************************************************************)
Transaction(sender, recipient, amount, timestamp) ==
    [sender |-> sender, recipient |-> recipient, amount |-> amount,
     timestamp |-> timestamp]

\* json.dumps(tx.to_dict(), sort_keys=True)
tx_dump(tx) == [h |-> "tx", of |-> tx]

\* Transaction.calculate_hash
tx_calculate_hash(tx) == hash_data(tx_dump(tx))

str_dump(s) == [h |-> "str", of |-> s]

\* RnaTemplate.__init__: the template hash
RnaTemplateHash(transactions, proposer_address, timestamp) ==
    hash_data([h |-> "rna",
               of |-> [proposer |-> proposer_address,
                       tx_hashes |-> [i \in 1..Len(transactions) |->
                                         tx_calculate_hash(transactions[i])],
                       timestamp |-> timestamp]])

\* CipProof.__init__
CipProof(rna_template_hash, coherence_anchors_hash) ==
    [rna_template_hash |-> rna_template_hash,
     coherence_anchors_hash |-> coherence_anchors_hash,
     proof_hash |-> hash_data([h |-> "proof",
                               of |-> <<rna_template_hash,
                                        coherence_anchors_hash>>])]

\* CipAttestation.__init__
CipAttestation(cip_proof, node_address) ==
    [proof_hash |-> cip_proof.proof_hash,
     node_address |-> node_address,
     signature |-> hash_data([h |-> "sig",
                              of |-> <<cip_proof.proof_hash, node_address>>])]

\* Addresses, in the order Python's string comparison gives them
NeuralAddresses == <<"NeuralNode-01", "NeuralNode-02", "NeuralNode-03", "NeuralNode-04", "NeuralNode-05", "NeuralNode-06", "NeuralNode-07", "NeuralNode-08", "NeuralNode-09", "NeuralNode-10">>

ValidatorAddresses == <<"Validator-01", "Validator-02", "Validator-03">>

AttesterAddresses == NeuralAddresses \o <<"genesis_calculator">>

AddressRank(a) ==
    CHOOSE i \in 1..Len(AttesterAddresses) : AttesterAddresses[i] = a

\* sorted(attestations, key=node_address): a stable insertion sort
RECURSIVE InsertByAddress(_, _)
InsertByAddress(sorted, att) ==
    IF sorted = <<>> THEN <<att>>
    ELSE IF AddressRank(att.node_address) < AddressRank(Head(sorted).node_address)
         THEN <<att>> \o sorted
         ELSE <<Head(sorted)>> \o InsertByAddress(Tail(sorted), att)

RECURSIVE SortByAddress(_)
SortByAddress(atts) ==
    IF atts = <<>> THEN <<>>
    ELSE InsertByAddress(SortByAddress(SubSeq(atts, 1, Len(atts) - 1)),
                         atts[Len(atts)])

\* Block.to_dict without block_hash, the attestations sorted by address
block_dump(block) ==
    [h |-> "block",
     of |-> [block_number |-> block.block_number,
             timestamp |-> block.timestamp,
             transactions |-> block.transactions,
             previous_hash |-> block.previous_hash,
             rna_template_hash |-> block.rna_template_hash,
             winning_cip_proof |-> block.winning_cip_proof,
             attestations |-> SortByAddress(block.attestations)]]

\* Block.calculate_hash
block_calculate_hash(tbl, block) ==
    abbreviated(tbl, hash_data(block_dump(block)))

\* a Block that takes its hash in the constructor, before its proof and
\* attestations are assigned
Block_hashed_on_creation(tbl, number, timestamp, transactions, previous_hash, rna_hash, proof, atts) ==
    LET created ==
            [block_number |-> number, timestamp |-> timestamp,
             transactions |-> transactions, previous_hash |-> previous_hash,
             rna_template_hash |-> rna_hash, winning_cip_proof |-> no_hash,
             attestations |-> <<>>, block_hash |-> no_hash]
    IN  [sha |-> remember(tbl, hash_data(block_dump(created))),
         block |-> [created EXCEPT
                       !.block_hash = abbreviated(tbl, hash_data(block_dump(created))),
                       !.winning_cip_proof = proof,
                       !.attestations = atts]]

\* Block(...), then the assignments of its proof, attestations and hash
Block(tbl, number, timestamp, transactions, previous_hash, rna_hash, proof, atts) ==
    LET unhashed ==
            [block_number |-> number, timestamp |-> timestamp,
             transactions |-> transactions, previous_hash |-> previous_hash,
             rna_template_hash |-> rna_hash, winning_cip_proof |-> proof,
             attestations |-> atts, block_hash |-> no_hash]
    IN  [sha |-> remember(tbl, hash_data(block_dump(unhashed))),
         block |-> [unhashed EXCEPT
                       !.block_hash = block_calculate_hash(tbl, unhashed)]]

\* a genesis block numbered like the first welded block
genesis_numbered_one(tbl) ==
    LET genesis_rna == RnaTemplateHash(<<>>, "genesis_proposer", 0)
        genesis_cip_proof ==
            CipProof(genesis_rna, hash_data(str_dump("genesis_anchors")))
    IN  Block(tbl, 1, 0, <<>>, zero_hash, genesis_rna, genesis_cip_proof,
              <<CipAttestation(genesis_cip_proof, "genesis_calculator")>>)

\* Blockchain.create_genesis_block
create_genesis_block(tbl) ==
    LET genesis_rna == RnaTemplateHash(<<>>, "genesis_proposer", 0)
        genesis_cip_proof ==
            CipProof(genesis_rna, hash_data(str_dump("genesis_anchors")))
    IN  Block(tbl, 0, 0, <<>>, zero_hash, genesis_rna, genesis_cip_proof,
              <<CipAttestation(genesis_cip_proof, "genesis_calculator")>>)

(***************************************************************************)
(* simulator_v8.py, sections 3-4: nodes and the Stencil                    *)
(***************************************************************************)
\* f"ValoriumX Node Software {software_version}"
SoftwareName(version) ==
    [h |-> "name", of |-> <<"ValoriumX Node Software", version>>]

OtherSoftwareName(version) ==
    [h |-> "name", of |-> <<"Other Software", version>>]

initial_stake == 1000
initial_reputation == 100

\* Node.__init__; is_honest is read of NeuralNode objects only
Node(address, software_version, is_honest) ==
    [address |-> address, stake |-> initial_stake,
     reputation |-> initial_reputation,
     software_version |-> software_version,
     software_hash |-> hash_data(SoftwareName(software_version)),
     is_honest |-> is_honest]

\* an honest node that derives the proof again from anchors of its own
attest_to_recomputed_proof(node, cip_proof) ==
    CipAttestation(
        CipProof(cip_proof.rna_template_hash,
                 hash_data(str_dump(IF node.is_honest THEN node.address
                                    ELSE "fake_anchors"))),
        node.address)

\* NeuralNode.attest_to_cip
attest_to_cip(node, cip_proof) ==
    IF node.is_honest
    THEN CipAttestation(cip_proof, node.address)
    ELSE CipAttestation(
             CipProof(fake_rna, hash_data(str_dump("fake_anchors"))),
             node.address)

\* Stencil.register_version
register_version(vers, version, name) ==
    DictSet(vers, version, hash_data(name))

\* `if h`: a hash that is no empty string
Truthy(h) == h # Literal("")

\* a node taken for compliant as soon as its version is in the registry
compliant_if_version_known(vers, node) ==
    node.software_version \in DOMAIN vers

\* Stencil.is_compliant
is_compliant(vers, node) ==
    /\ node.software_version \in DOMAIN vers
    /\ Truthy(vers[node.software_version])
    /\ node.software_hash = vers[node.software_version]

(***************************************************************************)
(* simulator_v8.py, section 5: the orchestrator                            *)
(***************************************************************************)
\* one unit of currency, in the units balances are counted in
BalanceUnit == 5 * 7 * 8 * 9

mining_reward == 100
reputation_threshold == 50
slashing_penalty == 100
slash_reputation_decrement == 50
max_reputation == 100
proposer_reputation_increment == 5
attester_reputation_increment == 2
proposer_share == 20
attester_share == 80
treasury_address == "ValoriumX_Treasury"
MintingSender == "Network Reward"

last_block(blocks) == blocks[Len(blocks)]

\* Blockchain.add_transaction: the test for sufficient funds
v8_accepts(bal, tx) ==
    ~(tx.sender # MintingSender
        /\ DictGet(bal, tx.sender) < tx.amount * BalanceUnit)

\* json.dumps(self.get_coherence_anchors(), sort_keys=True)
get_coherence_anchors(blocks) ==
    [h |-> "anchors", of |-> [last_block_hash |-> last_block(blocks).block_hash]]

\* math.floor(len(participating_nodes) * 2 / 3) + 1
cip_consensus_threshold(n) == ((n * 2) \div 3) + 1

\* eligibility that forgets the reputation floor
eligible_whatever_its_reputation(vers, node) == is_compliant(vers, node)

eligible(vers, node) ==
    is_compliant(vers, node) /\ node.reputation >= reputation_threshold

\* the positions in neural_nodes of the nodes taking part, in list order
participating_nodes(vers, nodes) ==
    SelectSeq([i \in 1..Len(nodes) |-> i], LAMBDA i : eligible(vers, nodes[i]))

\* [node.attest_to_cip(core_cip_proof) for node in participating_nodes]
attest_all(nodes, part, cip_proof) ==
    [k \in 1..Len(part) |-> attest_to_cip(nodes[part[k]], cip_proof)]

\* proof_counts[proof_hash]
proof_count(atts, proof_hash) ==
    Cardinality({i \in 1..Len(atts) : atts[i].proof_hash = proof_hash})

\* max(proof_counts.items(), key=count): of the most attested hashes the one
\* inserted into the dict first
winning_index(atts) ==
    LET counts == [i \in 1..Len(atts) |->
                      proof_count(atts, atts[i].proof_hash)]
    IN  CHOOSE i \in 1..Len(atts) :
            /\ \A j \in 1..Len(atts) : counts[j] <= counts[i]
            /\ \A j \in 1..(i - 1) : counts[j] < counts[i]

winning_proof_hash(atts) == atts[winning_index(atts)].proof_hash

\* next((att for att in attestations if att.node_address == address), None)
node_attestation(atts, address) ==
    IF \E i \in 1..Len(atts) : atts[i].node_address = address
    THEN LET first == CHOOSE i \in 1..Len(atts) :
                         /\ atts[i].node_address = address
                         /\ \A j \in 1..(i - 1) : atts[j].node_address # address
         IN  atts[first].proof_hash
    ELSE no_hash

\* a slash applied in part: the stake taken, the reputation left alone
slash_stake_only(node) ==
    [node EXCEPT !.stake = @ - Min(node.stake, 100)]

\* Blockchain.slash_node: the node
slash_amount(node) == Min(node.stake, slashing_penalty)

slash_node(node) ==
    IF slash_amount(node) > 0
    THEN [node EXCEPT !.stake = @ - slash_amount(node),
                      !.reputation = Max(0, @ - slash_reputation_decrement)]
    ELSE node

\* Blockchain.slash_node: the treasury's balance
slash_credit(bal, node) ==
    IF slash_amount(node) > 0
    THEN DictSet(bal, treasury_address,
                 DictGet(bal, treasury_address)
                     + slash_amount(node) * BalanceUnit)
    ELSE bal

\* the test of the slashing loop
should_slash(atts, node, winning) ==
    node_attestation(atts, node.address) # winning

\* the slashing loop: the nodes
slash_disagreeing(nodes, part, atts, winning) ==
    [i \in 1..Len(nodes) |->
        IF (\E k \in 1..Len(part) : part[k] = i)
              /\ should_slash(atts, nodes[i], winning)
        THEN slash_node(nodes[i])
        ELSE nodes[i]]

\* the slashing loop: the balances
RECURSIVE slash_credits(_, _, _, _, _)
slash_credits(bal, nodes, part, atts, winning) ==
    IF part = <<>> THEN bal
    ELSE slash_credits(
             IF should_slash(atts, nodes[Head(part)], winning)
             THEN slash_credit(bal, nodes[Head(part)])
             ELSE bal,
             nodes, Tail(part), atts, winning)

\* a block that keeps every attestation of its round
all_attestations(atts, winning) == atts

\* [att for att in attestations if att.proof_hash == winning_proof_hash]
winning_attestations(atts, winning) ==
    SelectSeq(atts, LAMBDA att : att.proof_hash = winning)

\* the test that aborts the round after the slashing loop
consensus_failed(winning, winning_count, core_hash, threshold) ==
    winning # core_hash \/ winning_count < threshold

\* self.pending_transactions.extend(transactions_for_block)
restore_pending(buffer, txs) == buffer \o txs

\* update_balances_and_rewards, the loop over the transactions: the balances
\* it leaves, and whether it ended without a KeyError
RECURSIVE apply_transactions(_, _)
apply_transactions(bal, txs) ==
    IF txs = <<>> THEN [bal |-> bal, ok |-> TRUE]
    ELSE LET tx == Head(txs)
         IN  IF tx.sender \notin DOMAIN bal
             THEN [bal |-> bal, ok |-> FALSE]
             ELSE LET debited ==
                          [bal EXCEPT ![tx.sender] = @ - tx.amount * BalanceUnit]
                  IN  apply_transactions(
                          DictSet(debited, tx.recipient,
                                  DictGet(debited, tx.recipient)
                                      + tx.amount * BalanceUnit),
                          Tail(txs))

\* the batch settled before the tally is known
settled_before_consensus(bal, txs) == apply_transactions(bal, txs).bal

\* the balances after a failed consensus: the return at the failure comes
\* before the settlement of the batch
balances_after_abort(bal, txs) == bal

proposer_reward == (mining_reward * proposer_share * BalanceUnit) \div 100

reward_per_node(n) == ((mining_reward * attester_share * BalanceUnit) \div 100) \div n

\* update_balances_and_rewards, the rewards: the balances
RECURSIVE credit_each(_, _, _)
credit_each(bal, addresses, amount) ==
    IF addresses = <<>> THEN bal
    ELSE credit_each(DictSet(bal, Head(addresses),
                             DictGet(bal, Head(addresses)) + amount),
                     Tail(addresses), amount)

reward_balances(bal, proposer_address, contributing) ==
    LET paid == DictSet(bal, proposer_address,
                        DictGet(bal, proposer_address) + proposer_reward)
    IN  IF contributing = <<>> THEN paid
        ELSE credit_each(paid, contributing,
                         reward_per_node(Len(contributing)))

\* the reputation raised without the clamp at 1.0
reward_reputation_unclamped(node, increment) ==
    [node EXCEPT !.reputation = @ + increment]

\* min(1.0, reputation + increment)
reward_reputation(node, increment) ==
    [node EXCEPT !.reputation = Min(max_reputation, @ + increment)]

\* next((n for n in self.neural_nodes if n.address == address), None)
first_with_address(nodes, address) ==
    IF \E i \in 1..Len(nodes) : nodes[i].address = address
    THEN CHOOSE i \in 1..Len(nodes) :
             /\ nodes[i].address = address
             /\ \A j \in 1..(i - 1) : nodes[j].address # address
    ELSE 0

\* update_balances_and_rewards, the rewards: the neural nodes
RECURSIVE reward_attesters(_, _)
reward_attesters(nodes, contributing) ==
    IF contributing = <<>> THEN nodes
    ELSE LET i == first_with_address(nodes, Head(contributing))
         IN  reward_attesters(
                 IF i = 0 THEN nodes
                 ELSE [nodes EXCEPT ![i] =
                          reward_reputation(@, attester_reputation_increment)],
                 Tail(contributing))

\* the index left where it is
proposer_index_not_advanced(index, validators) == index

next_proposer_index(index, validators) == (index + 1) % Len(validators)

\* the proposer of a failed round slashed with its attesters
proposer_slashed_on_abort(validators, proposer) ==
    [validators EXCEPT ![proposer] = slash_node(@)]

\* the validators after a failed consensus: the return at the failure leaves
\* the proposer as it is
validators_after_abort(validators, proposer) == validators

\* the test that ends the round with the proposer slashed
proposer_rejected(vers, proposer_node) ==
    ~is_compliant(vers, proposer_node)
        \/ proposer_node.reputation < reputation_threshold

(***************************************************************************)
(* simulator_v8.py, section 6: the networks the ledger is started on       *)
(***************************************************************************)
OfficialVersion == "v1.0"
BetaVersion == "v1.1-beta"

RECURSIVE Repeat(_, _)
Repeat(x, n) == IF n = 0 THEN <<>> ELSE <<x>> \o Repeat(x, n - 1)

\* honest and dishonest nodes run the registered version, a noncompliant
\* node one the Stencil does not know
NeuralConfigs ==
    { <<"honest">>, <<"dishonest">>, <<"noncompliant">>,
      <<"honest", "dishonest">>, <<"dishonest", "honest">>,
      <<"honest", "honest", "dishonest", "noncompliant">>,
      Repeat("honest", 7) \o Repeat("dishonest", 3),
      Repeat("honest", 6) \o Repeat("dishonest", 3) }

\* every set of neural nodes under one compliant validator, and small ones
\* under a validator that is not compliant and under two validators
Networks ==
    { <<<<"honest">>, nkinds>> : nkinds \in NeuralConfigs }
        \cup { <<<<"noncompliant">>, <<"honest">>>>,
               <<<<"honest", "noncompliant">>, <<"honest">>>>,
               <<<<"honest", "noncompliant">>, <<"honest", "dishonest">>>> }

KindVersion(kind) ==
    IF kind = "noncompliant" THEN BetaVersion ELSE OfficialVersion

MakeNodes(addresses, kinds) ==
    [i \in 1..Len(kinds) |->
        Node(addresses[i], KindVersion(kinds[i]), kinds[i] # "dishonest")]

\* balances[node.address] = node.stake for every node; balances["Alice"]
InitialBalances(validators, neurals) ==
    [a \in {validators[i].address : i \in 1..Len(validators)}
           \cup {neurals[i].address : i \in 1..Len(neurals)}
           \cup {"Alice"} |->
        IF a = "Alice" THEN InitialFunds * BalanceUnit
        ELSE initial_stake * BalanceUnit]

\* the record of the round that returned last, for the properties of single
\* rounds: the locals it ran on (proposer, participants, expected for
\* core_cip_proof.proof_hash, the attested hashes, the tally) and the
\* readings of the clock that the rounds have taken; id counts the rounds
NoRound ==
    [id |-> 0, outcome |-> "none", proposer |-> 0, participants |-> <<>>,
     attested |-> <<>>, expected |-> no_hash, winning |-> no_hash,
     winning_count |-> 0, threshold |-> 0, reads |-> 0]

IdleV8 ==
    /\ chain = <<>>
    /\ pending_transactions = <<>>
    /\ balances = <<>>
    /\ current_proposer_index = 0
    /\ validator_nodes = <<>>
    /\ neural_nodes = <<>>
    /\ versions = <<>>
    /\ stencil_log = <<>>
    /\ now = 0
    /\ round = NoRound
    /\ script = 0

InitV8 ==
    \E network \in Networks :
        LET genesis == create_genesis_block(<<>>)
            vkinds == network[1]
            nkinds == network[2]
        IN  /\ sha = genesis.sha
            /\ chain = <<genesis.block>>
            /\ pending_transactions = <<>>
            /\ validator_nodes = MakeNodes(ValidatorAddresses, vkinds)
            /\ neural_nodes = MakeNodes(NeuralAddresses, nkinds)
            /\ balances = InitialBalances(validator_nodes, neural_nodes)
            /\ current_proposer_index = 0
            /\ versions = register_version(<<>>, OfficialVersion,
                                           SoftwareName(OfficialVersion))
            /\ stencil_log = <<>>
            /\ now = 1
            /\ round = NoRound
            /\ script = 0

IdlePow ==
    /\ pow_chain = <<>>
    /\ pow_pending = <<>>
    /\ pow_balances = <<>>
    /\ pow_now = 0
    /\ tampered = 0

IdleFrag ==
    /\ node_fragments = <<>>
    /\ fragment_locations = <<>>
    /\ regeneration_count = 0
    /\ loss_reports = 0
    /\ regenerating_log = {}
    /\ payload = <<>>
    /\ failed_nodes = {}

IdleRace == slashers = <<>>

\* no EnhancedBlockchain has been built
IdleEnh == performance_metrics = <<>>

IdleQuad ==
    /\ q_input = <<>>
    /\ q_quadrits = <<>>
    /\ q_output = <<>>
    /\ q_pc = "idle"

Init == InitV8 /\ IdlePow /\ IdleFrag /\ IdleQuad /\ IdleRace /\ IdleEnh

(***************************************************************************)
(* simulator_v8.py: the operations of the ledger                           *)
(***************************************************************************)
\* an uncaught exception has not ended the program
running == round.outcome # "crashed"

TxInputs ==
    { <<"Alice", "Bob", InitialFunds>>,
      <<MintingSender, "Bob", 1>>, <<"Alice", "Bob", 0 - 1>> }

\* Blockchain.add_transaction(Transaction(sender, recipient, amount)); the
\* transaction takes a reading of the clock
add_transaction(sender, recipient, amount) ==
    LET tx == Transaction(sender, recipient, amount, now)
    IN  /\ running
        /\ now' = now + 1
        /\ pending_transactions' =
               IF v8_accepts(balances, tx)
               THEN Append(pending_transactions, tx)
               ELSE pending_transactions
        /\ UNCHANGED <<sha, chain, balances, current_proposer_index,
                       validator_nodes, neural_nodes, versions, stencil_log,
                       round>>

RegistrationInputs ==
    { <<BetaVersion, SoftwareName(BetaVersion)>>,
      <<OfficialVersion, OtherSoftwareName(OfficialVersion)>> }

\* Stencil.register_version(version, name)
stencil_register_version(version, name) ==
    /\ running
    /\ Len(stencil_log) < MaxRegistrations
    /\ versions' = register_version(versions, version, name)
    /\ stencil_log' = Append(stencil_log, version)
    /\ UNCHANGED <<sha, chain, pending_transactions, balances,
                   current_proposer_index, validator_nodes, neural_nodes,
                   now, round>>

\* Blockchain.process_block_creation_cycle(), from the call to its return:
\* the proposer is chosen and the index advanced, the batch is taken and the
\* buffer emptied, the template is stamped with a reading of the clock, the
\* participants are chosen, the proof is built over the anchors of the
\* chain, the attesters answer, the proofs are tallied and the disagreeing
\* attesters slashed; then the batch goes back to the buffer, or the block
\* is stamped with a later reading of the clock, welded and settled
process_block_creation_cycle ==
    /\ running
    /\ IF pending_transactions = <<>>
       THEN UNCHANGED ledgervars
       ELSE
       LET proposer == current_proposer_index + 1
           proposer_node == validator_nodes[proposer]
           transactions_for_block == pending_transactions
           rna_template_hash ==
               RnaTemplateHash(transactions_for_block, proposer_node.address, now)
           part == participating_nodes(versions, neural_nodes)
           core_cip_proof ==
               CipProof(rna_template_hash,
                        hash_data(get_coherence_anchors(chain)))
           attestations == attest_all(neural_nodes, part, core_cip_proof)
           threshold == cip_consensus_threshold(Len(part))
           winning == winning_proof_hash(attestations)
           winning_count == proof_count(attestations, winning)
           slashed_nodes ==
               slash_disagreeing(neural_nodes, part, attestations, winning)
           slashed_balances ==
               slash_credits(balances, neural_nodes, part, attestations, winning)
           agreeing == winning_attestations(attestations, winning)
           welded == Block(sha, Len(chain), now + 1, transactions_for_block,
                           last_block(chain).block_hash, rna_template_hash,
                           core_cip_proof, agreeing)
           contributing == [i \in 1..Len(agreeing) |-> agreeing[i].node_address]
           settled == apply_transactions(slashed_balances, transactions_for_block)
           this_round ==
               [NoRound EXCEPT !.id = round.id + 1,
                               !.outcome = "proposer_rejected",
                               !.proposer = proposer,
                               !.reads = round.reads]
           tallied ==
               [this_round EXCEPT
                   !.participants = part,
                   !.attested = [i \in 1..Len(attestations) |->
                                    attestations[i].proof_hash],
                   !.expected = core_cip_proof.proof_hash,
                   !.winning = winning,
                   !.winning_count = winning_count,
                   !.threshold = threshold]
       IN  /\ current_proposer_index' =
                  next_proposer_index(current_proposer_index, validator_nodes)
           /\ UNCHANGED <<versions, stencil_log, powvars, fragvars, quadvars,
                          racevars, enhvars>>
           /\ IF proposer_rejected(versions, proposer_node)
              THEN /\ validator_nodes' =
                          [validator_nodes EXCEPT ![proposer] = slash_node(@)]
                   /\ balances' = slash_credit(balances, proposer_node)
                   /\ round' = this_round
                   /\ UNCHANGED <<sha, chain, pending_transactions,
                                  neural_nodes, now>>
              ELSE IF part = <<>>
              THEN /\ pending_transactions' =
                          restore_pending(<<>>, transactions_for_block)
                   /\ now' = now + 1
                   /\ round' = [this_round EXCEPT !.outcome = "no_attesters",
                                                  !.reads = @ + 1]
                   /\ UNCHANGED <<sha, chain, balances, validator_nodes,
                                  neural_nodes>>
              ELSE IF consensus_failed(winning, winning_count,
                                       core_cip_proof.proof_hash, threshold)
              THEN /\ neural_nodes' = slashed_nodes
                   /\ balances' = balances_after_abort(slashed_balances,
                                                       transactions_for_block)
                   /\ pending_transactions' =
                          restore_pending(<<>>, transactions_for_block)
                   /\ now' = now + 1
                   /\ round' = [tallied EXCEPT !.outcome = "aborted",
                                               !.reads = @ + 1]
                   /\ validator_nodes' =
                          validators_after_abort(validator_nodes, proposer)
                   /\ UNCHANGED <<sha, chain>>
              ELSE /\ sha' = welded.sha
                   /\ chain' = Append(chain, welded.block)
                   /\ pending_transactions' = <<>>
                   /\ now' = now + 2
                   /\ IF settled.ok
                      THEN /\ balances' =
                                  reward_balances(settled.bal,
                                                  proposer_node.address,
                                                  contributing)
                           /\ validator_nodes' =
                                  [validator_nodes EXCEPT ![proposer] =
                                      reward_reputation(
                                          @, proposer_reputation_increment)]
                           /\ neural_nodes' =
                                  reward_attesters(slashed_nodes, contributing)
                           /\ round' = [tallied EXCEPT !.outcome = "committed",
                                                       !.reads = @ + 2]
                      ELSE /\ balances' = settled.bal
                           /\ neural_nodes' = slashed_nodes
                           /\ round' = [tallied EXCEPT !.outcome = "crashed",
                                                       !.reads = @ + 2]
                           /\ UNCHANGED validator_nodes

\* the transactions a behaviour has added: the readings of the clock that
\* the rounds did not take
added == now - 1 - round.reads

Next ==
    \/ \E input \in TxInputs :
           /\ added < MaxClock
           /\ add_transaction(input[1], input[2], input[3])
           /\ UNCHANGED <<powvars, fragvars, quadvars, racevars, loopvars,
                          enhvars>>
    \/ \E input \in RegistrationInputs :
           /\ stencil_register_version(input[1], input[2])
           /\ UNCHANGED <<powvars, fragvars, quadvars, racevars, loopvars,
                          enhvars>>
    \/ /\ round.id < MaxRounds
       /\ process_block_creation_cycle
       /\ UNCHANGED loopvars

Spec == Init /\ [][Next]_vars

(***************************************************************************)
(* simulator_v8.py: the main script, lines 347 to 353, on networks with an *)
(* honest majority                                                         *)
(***************************************************************************)
\* the kinds of up to n attesters
RECURSIVE KindLists(_)
KindLists(n) ==
    IF n = 0 THEN {<<>>}
    ELSE LET shorter == KindLists(n - 1)
         IN  shorter \cup
                 { Append(kinds, kind) :
                       kinds \in { k \in shorter : Len(k) = n - 1 },
                       kind \in {"honest", "dishonest", "noncompliant"} }

HowMany(kinds, kind) == Len(SelectSeq(kinds, LAMBDA k : k = kind))

\* under the three validators of the main script, every set of up to
\* MaxAttesters attesters in which the honest outnumber the dishonest, that
\* of the main script among them, and seven honest attesters with three
\* dishonest ones
RecoveryNetworks ==
    { <<Repeat("honest", 3), nkinds>> :
          nkinds \in { kinds \in KindLists(MaxAttesters) :
                           HowMany(kinds, "honest")
                               > HowMany(kinds, "dishonest") }
                     \cup { Repeat("honest", 7) \o Repeat("dishonest", 3) } }

\* the transfers of an iteration of the main loop, in the order of the
\* script
MainTransfers == << <<"Alice", "Bob", 100>>, <<"Alice", "Charlie", 50>> >>

\* add_transaction is called twice in an iteration
AddsPerIteration == Len(MainTransfers)

\* for i in range(3)
Iterations == 3

\* balances["Alice"] = 2000
MainFunds == 2000

InitRecovery ==
    \E network \in RecoveryNetworks :
        LET genesis == create_genesis_block(<<>>)
            vkinds == network[1]
            nkinds == network[2]
        IN  /\ sha = genesis.sha
            /\ chain = <<genesis.block>>
            /\ pending_transactions = <<>>
            /\ validator_nodes = MakeNodes(ValidatorAddresses, vkinds)
            /\ neural_nodes = MakeNodes(NeuralAddresses, nkinds)
            /\ balances =
                   [InitialBalances(validator_nodes, neural_nodes)
                       EXCEPT !["Alice"] = MainFunds * BalanceUnit]
            /\ current_proposer_index = 0
            /\ versions = register_version(<<>>, OfficialVersion,
                                           SoftwareName(OfficialVersion))
            /\ stencil_log = <<>>
            /\ now = 1
            /\ round = NoRound
            /\ script = 0
            /\ IdlePow /\ IdleFrag /\ IdleQuad /\ IdleRace /\ IdleEnh

\* the statements of an iteration: the two calls of add_transaction and the
\* call of process_block_creation_cycle
StatementsPerIteration == AddsPerIteration + 1

\* the main script is at a call of add_transaction, and which
at_add ==
    /\ script < Iterations * StatementsPerIteration
    /\ script % StatementsPerIteration < AddsPerIteration

next_transfer == MainTransfers[(script % StatementsPerIteration) + 1]

\* the main script is at its call of process_block_creation_cycle
at_cycle ==
    /\ script < Iterations * StatementsPerIteration
    /\ script % StatementsPerIteration = AddsPerIteration

\* lines 351 and 352: the main loop's add_transaction
prepare_cycle(sender, recipient, amount) ==
    /\ at_add
    /\ add_transaction(sender, recipient, amount)
    /\ script' = script + 1
    /\ UNCHANGED <<powvars, fragvars, quadvars, racevars, enhvars>>

\* line 353: the main loop's process_block_creation_cycle
run_cycle ==
    /\ at_cycle
    /\ process_block_creation_cycle
    /\ script' = script + 1

NextRecovery ==
    \/ prepare_cycle(next_transfer[1], next_transfer[2], next_transfer[3])
    \/ run_cycle

\* the interpreter runs the script to its end: each of its statements is
\* executed when the script has come to it (WF_vars of the two actions, with
\* the enabling conditions written out)
SpecRecovery ==
    /\ InitRecovery
    /\ [][NextRecovery]_vars
    /\ ([]<>~at_add
           \/ []<><<prepare_cycle(next_transfer[1], next_transfer[2],
                                  next_transfer[3])>>_vars)
    /\ ([]<>~(at_cycle /\ running) \/ []<><<run_cycle>>_vars)

(***************************************************************************)
(* Blockchain.slash_node on its own, on every node a run can leave behind  *)
(***************************************************************************)
\* stake and reputation of a validator after some rounds: a node never
\* slashed has all of both, and a reputation under 50 takes two slashes
ValidatorStandings ==
    { <<initial_stake, initial_reputation>> }
        \cup ({0, 100, 800} \X {0, 5, 50, 100})

NeuralStandings ==
    { <<initial_stake, initial_reputation>> }
        \cup ({0, 100, 800} \X {0, 2, 50, 100})

Standing(node, standing) ==
    [node EXCEPT !.stake = standing[1], !.reputation = standing[2]]

\* the treasury holds what the nodes have lost
TreasuryOf(bal, validators, neurals) ==
    LET lost == (initial_stake - validators[1].stake)
                    + (initial_stake - neurals[1].stake)
    IN  IF lost = 0 THEN bal
        ELSE DictSet(bal, treasury_address, lost * BalanceUnit)

InitSlash ==
    \E v \in ValidatorStandings, n \in NeuralStandings :
        LET genesis == create_genesis_block(<<>>)
        IN  /\ sha = genesis.sha
            /\ chain = <<genesis.block>>
            /\ pending_transactions = <<>>
            /\ validator_nodes =
                   <<Standing(Node(ValidatorAddresses[1], OfficialVersion, TRUE), v)>>
            /\ neural_nodes =
                   <<Standing(Node(NeuralAddresses[1], OfficialVersion, TRUE), n)>>
            /\ balances =
                   TreasuryOf(InitialBalances(validator_nodes, neural_nodes),
                              validator_nodes, neural_nodes)
            /\ current_proposer_index = 0
            /\ versions = register_version(<<>>, OfficialVersion,
                                           SoftwareName(OfficialVersion))
            /\ stencil_log = <<>>
            /\ now = 1
            /\ round = NoRound
            /\ script = 0
            /\ IdlePow /\ IdleFrag /\ IdleQuad /\ IdleRace /\ IdleEnh

\* Blockchain.slash_node(validator_nodes[i])
slash_validator(i) ==
    /\ round.id < MaxRounds
    /\ validator_nodes' = [validator_nodes EXCEPT ![i] = slash_node(@)]
    /\ balances' = slash_credit(balances, validator_nodes[i])
    /\ round' = [round EXCEPT !.id = @ + 1, !.outcome = "slash_node",
                              !.proposer = i, !.participants = <<>>]
    /\ UNCHANGED <<sha, chain, pending_transactions, current_proposer_index,
                   neural_nodes, versions, stencil_log, now,
                   powvars, fragvars, quadvars, racevars, loopvars, enhvars>>

\* Blockchain.slash_node(neural_nodes[i])
slash_neural(i) ==
    /\ round.id < MaxRounds
    /\ neural_nodes' = [neural_nodes EXCEPT ![i] = slash_node(@)]
    /\ balances' = slash_credit(balances, neural_nodes[i])
    /\ round' = [round EXCEPT !.id = @ + 1, !.outcome = "slash_node",
                              !.proposer = 0, !.participants = <<i>>]
    /\ UNCHANGED <<sha, chain, pending_transactions, current_proposer_index,
                   validator_nodes, versions, stencil_log, now,
                   powvars, fragvars, quadvars, racevars, loopvars, enhvars>>

NextSlash ==
    \/ \E i \in 1..Len(validator_nodes) : slash_validator(i)
    \/ \E i \in 1..Len(neural_nodes) : slash_neural(i)

SpecSlash == InitSlash /\ [][NextSlash]_vars

(***************************************************************************)
(* structures.py and blockchain.py: the mined ledger                       *)
(***************************************************************************)
\* structures.py, Transaction.__init__ with data = ''; the signature None is
\* written as the empty tuple, a signature string as the tuple of its parts
pow_Transaction(sender, recipient, amount, timestamp) ==
    [sender |-> sender, recipient |-> recipient, amount |-> amount,
     quadrit_data_payload |-> <<>>, timestamp |-> timestamp,
     signature |-> <<>>]

\* Transaction.to_dict: every field but the signature
to_dict(tx) ==
    [sender |-> tx.sender, recipient |-> tx.recipient, amount |-> tx.amount,
     quadrit_data_payload |-> tx.quadrit_data_payload,
     timestamp |-> tx.timestamp]

\* structures.py, Transaction.calculate_hash
pow_tx_calculate_hash(tx) == hash_data([h |-> "tx", of |-> to_dict(tx)])

\* Transaction.sign_transaction(signing_key):
\* "simulated_signature_of_" + self.calculate_hash()
sign_transaction(tx) ==
    [tx EXCEPT !.signature =
        <<"simulated_signature_of_", pow_tx_calculate_hash(tx)>>]

\* Transaction.is_valid
is_valid(tx) == tx.sender # "" /\ tx.recipient # "" /\ tx.amount > 0

\* structures.py, Block.calculate_hash
pow_calculate_hash(block) ==
    hash_data([h |-> "header",
               of |-> [timestamp |-> block.timestamp,
                       transactions |->
                           [i \in 1..Len(block.transactions) |->
                               pow_tx_calculate_hash(block.transactions[i])],
                       previous_hash |-> block.previous_hash,
                       nonce |-> block.nonce]])

\* structures.py, Block.__init__
pow_Block(timestamp, transactions, previous_hash) ==
    LET fields == [timestamp |-> timestamp, transactions |-> transactions,
                   previous_hash |-> previous_hash, nonce |-> 0,
                   block_hash |-> no_hash]
    IN  [fields EXCEPT !.block_hash = pow_calculate_hash(fields)]

\* Block.mine_block: the loop ends at the first nonce whose digest begins with
\* the zeros asked for; which nonce that is the model leaves open
mine_block(block, nonce) ==
    LET worked == [block EXCEPT !.nonce = nonce]
    IN  [worked EXCEPT !.block_hash = pow_calculate_hash(worked)]

\* blockchain.py, Blockchain.create_genesis_block
pow_create_genesis_block == pow_Block(0, <<>>, zero_hash)

\* Blockchain.add_transaction: the tests that raise ValueError
pow_accepts(bal, tx) ==
    /\ tx.sender # "" /\ tx.recipient # ""
    /\ is_valid(tx)
    /\ tx.sender # MintingSender => DictGet(bal, tx.sender) >= tx.amount

\* a settlement that debits the sender of every transaction, the network's
\* account with the others
RECURSIVE pow_apply_debiting_network(_, _)
pow_apply_debiting_network(bal, txs) ==
    IF txs = <<>> THEN bal
    ELSE LET tx == Head(txs)
             debited == DictSet(bal, tx.sender,
                                DictGet(bal, tx.sender) - tx.amount)
         IN  pow_apply_debiting_network(
                 DictSet(debited, tx.recipient,
                         DictGet(debited, tx.recipient) + tx.amount),
                 Tail(txs))

\* Blockchain.mine_pending_transactions: the loop over the mined transactions
RECURSIVE pow_apply_transactions(_, _)
pow_apply_transactions(bal, txs) ==
    IF txs = <<>> THEN bal
    ELSE LET tx == Head(txs)
             debited == IF tx.sender # MintingSender
                        THEN [bal EXCEPT ![tx.sender] = @ - tx.amount]
                        ELSE bal
         IN  pow_apply_transactions(
                 DictSet(debited, tx.recipient,
                         DictGet(debited, tx.recipient) + tx.amount),
                 Tail(txs))

\* Blockchain.is_chain_valid
is_chain_valid(blocks) ==
    \A i \in 2..Len(blocks) :
        /\ blocks[i].block_hash = pow_calculate_hash(blocks[i])
        /\ blocks[i].previous_hash = blocks[i - 1].block_hash

InitPow ==
    /\ pow_chain = <<pow_create_genesis_block>>
    /\ pow_pending = <<>>
    /\ pow_balances = <<>>
    /\ pow_now = 1
    /\ tampered = 0
    /\ sha = <<>>
    /\ IdleV8 /\ IdleFrag /\ IdleQuad /\ IdleRace /\ IdleEnh

\* sender, recipient, amount, and whether the caller has signed the
\* transaction
PowTxInputs ==
    { <<"Alice", "Bob", 100, TRUE>>,
      <<"Alice", "Bob", 60, FALSE>>, <<"Bob", "Alice", 150, FALSE>>,
      <<MintingSender, "Bob", 60, FALSE>>, <<"Alice", "", 60, FALSE>>,
      <<"Alice", "Bob", 0, FALSE>> }

\* main.py: the wallets that are given funds and what they are given
FundingInputs == { <<"Alice", 500>>, <<"Bob", 200>> }

MinerAddresses == {"Alice", "Miner"}

\* main.py: valorium_chain.balances[wallet] = amount, on the chain as it was
\* constructed
distribute_initial_funds(wallet, amount) ==
    /\ tampered = 0
    /\ Len(pow_chain) = 1
    /\ pow_pending = <<>>
    /\ pow_balances' = DictSet(pow_balances, wallet, amount)
    /\ UNCHANGED <<pow_chain, pow_pending, pow_now, tampered>>

\* Blockchain.add_transaction(Transaction(sender, recipient, amount)), the
\* transaction signed by its maker or not
pow_add_transaction(sender, recipient, amount, signed) ==
    LET made == pow_Transaction(sender, recipient, amount, pow_now)
        tx == IF signed THEN sign_transaction(made) ELSE made
    IN  /\ tampered = 0
        /\ pow_now <= MaxPowClock
        /\ pow_now' = pow_now + 1
        /\ pow_pending' = IF pow_accepts(pow_balances, tx)
                          THEN Append(pow_pending, tx)
                          ELSE pow_pending
        /\ UNCHANGED <<pow_chain, pow_balances, tampered>>

\* Blockchain.mine_pending_transactions(mining_reward_address): the reward
\* transaction takes a reading of the clock (line 76), the block a later one
\* (line 81)
mine_pending_transactions(mining_reward_address, nonce) ==
    LET reward_tx == pow_Transaction(MintingSender, mining_reward_address,
                                     mining_reward, pow_now)
        mined == Append(pow_pending, reward_tx)
        new_block ==
            mine_block(pow_Block(pow_now + 1, mined,
                                 last_block(pow_chain).block_hash), nonce)
    IN  /\ tampered = 0
        /\ pow_now <= MaxPowClock
        /\ pow_now' = pow_now + 2
        /\ pow_chain' = Append(pow_chain, new_block)
        /\ pow_balances' = pow_apply_transactions(pow_balances, mined)
        /\ pow_pending' = <<>>
        /\ UNCHANGED tampered

\* Transaction.sign_transaction(signing_key) on the k-th transaction of the
\* buffer, which its maker still holds
sign_pending(k) ==
    /\ tampered = 0
    /\ pow_pending' = [pow_pending EXCEPT ![k] = sign_transaction(@)]
    /\ UNCHANGED <<pow_chain, pow_balances, pow_now, tampered>>

\* what an auditor's test does to one field of a stored block, as main.py
\* does to an amount
TamperedFields ==
    {"timestamp", "previous_hash", "nonce", "block_hash", "amount",
     "recipient", "signature"}

tamper_block(block, field) ==
    CASE field = "timestamp" -> [block EXCEPT !.timestamp = @ + 1]
      [] field = "previous_hash" ->
             [block EXCEPT !.previous_hash = Literal("tampered")]
      [] field = "nonce" -> [block EXCEPT !.nonce = @ + 1]
      [] field = "block_hash" ->
             [block EXCEPT !.block_hash = Literal("tampered")]
      [] field = "amount" ->
             [block EXCEPT !.transactions[1].amount = 10000]
      [] field = "recipient" ->
             [block EXCEPT !.transactions[1].recipient = "Mallory"]
      [] field = "signature" ->
             [block EXCEPT !.transactions[1].signature = <<"forged">>]

\* chain[i].<field> = <another value>, i counted from 1
tamper(i, field) ==
    /\ tampered = 0
    /\ field \in {"amount", "recipient", "signature"}
           => pow_chain[i].transactions # <<>>
    /\ pow_chain' = [pow_chain EXCEPT ![i] = tamper_block(@, field)]
    /\ tampered' = i
    /\ UNCHANGED <<pow_pending, pow_balances, pow_now>>

NextPow ==
    \/ \E input \in FundingInputs :
           /\ distribute_initial_funds(input[1], input[2])
           /\ UNCHANGED <<sha, v8vars, fragvars, quadvars, racevars,
                          loopvars, enhvars>>
    \/ \E input \in PowTxInputs :
           /\ pow_add_transaction(input[1], input[2], input[3], input[4])
           /\ UNCHANGED <<sha, v8vars, fragvars, quadvars, racevars,
                          loopvars, enhvars>>
    \/ \E k \in 1..Len(pow_pending) :
           /\ sign_pending(k)
           /\ UNCHANGED <<sha, v8vars, fragvars, quadvars, racevars,
                          loopvars, enhvars>>
    \/ \E miner \in MinerAddresses, nonce \in 0..MaxNonce :
           /\ mine_pending_transactions(miner, nonce)
           /\ UNCHANGED <<sha, v8vars, fragvars, quadvars, racevars,
                          loopvars, enhvars>>
    \/ \E i \in 1..Len(pow_chain), field \in TamperedFields :
           /\ tamper(i, field)
           /\ UNCHANGED <<sha, v8vars, fragvars, quadvars, racevars,
                          loopvars, enhvars>>

SpecPow == InitPow /\ [][NextPow]_vars

(***************************************************************************)
(* stencil.py: the registry of software hashes                             *)
(***************************************************************************)
FutureVersion == "v2.0"

\* the versions and the hashes the registry is given: the hash of each
\* node software, a hash of other software, and the empty string
StencilInputs ==
    {OfficialVersion, BetaVersion, FutureVersion}
        \X { hash_data(SoftwareName(OfficialVersion)),
             hash_data(SoftwareName(BetaVersion)),
             hash_data(OtherSoftwareName(OfficialVersion)),
             Literal("") }

\* a Stencil with no version registered, and one node of each version
InitStencil ==
    /\ versions = <<>>
    /\ stencil_log = <<>>
    /\ neural_nodes =
           [i \in 1..3 |->
               Node(NeuralAddresses[i],
                    <<OfficialVersion, BetaVersion, FutureVersion>>[i], TRUE)]
    /\ validator_nodes = <<>>
    /\ chain = <<>>
    /\ pending_transactions = <<>>
    /\ balances = <<>>
    /\ current_proposer_index = 0
    /\ now = 0
    /\ round = NoRound
    /\ script = 0
    /\ sha = <<>>
    /\ IdlePow /\ IdleFrag /\ IdleQuad /\ IdleRace /\ IdleEnh

\* Stencil.register_version_hash(version, official_hash)
register_version_hash(version, official_hash) ==
    /\ Len(stencil_log) < MaxStencilLog
    /\ versions' = DictSet(versions, version, official_hash)
    /\ stencil_log' =
           Append(stencil_log, [version |-> version, hash |-> official_hash])
    /\ UNCHANGED <<sha, chain, pending_transactions, balances,
                   current_proposer_index, validator_nodes, neural_nodes,
                   now, round>>

NextStencil ==
    \E input \in StencilInputs :
        /\ register_version_hash(input[1], input[2])
        /\ UNCHANGED <<powvars, fragvars, quadvars, racevars, loopvars,
                       enhvars>>

SpecStencil == InitStencil /\ [][NextStencil]_vars

(***************************************************************************)
(* simulator_claude.py, section 2: the fragment store                      *)
(***************************************************************************)
\* the length of a SHA-256 digest in bytes
DigestLen == 32

\* hashlib.sha256(f"{fragment_id}_{i}".encode()).digest()
PatternSeed(base, i) ==
    CASE base = "block_1" /\ i = 0 ->
             <<248, 84, 84, 162, 155, 74, 60, 129, 209, 148, 27, 94, 46, 166,
               235, 116, 109, 161, 241, 101, 39, 23, 103, 0, 255, 209, 91, 7,
               78, 111, 161, 153>>
      [] base = "block_1" /\ i = 1 ->
             <<77, 221, 101, 64, 108, 156, 16, 128, 227, 171, 242, 58, 215,
               211, 236, 125, 83, 87, 226, 125, 1, 236, 15, 14, 190, 26, 56,
               87, 145, 178, 98, 225>>
      [] base = "block_1" /\ i = 2 ->
             <<225, 48, 68, 103, 81, 127, 156, 106, 190, 56, 115, 72, 195, 76,
               95, 42, 120, 36, 140, 88, 10, 22, 113, 232, 147, 110, 212, 49,
               199, 81, 240, 29>>
      [] base = "genesis_block" /\ i = 0 ->
             <<105, 14, 235, 32, 183, 113, 71, 131, 147, 149, 75, 88, 233, 3,
               114, 90, 240, 30, 4, 3, 162, 246, 99, 65, 146, 234, 84, 203,
               30, 105, 60, 84>>
      [] base = "genesis_block" /\ i = 1 ->
             <<206, 182, 185, 134, 165, 233, 176, 134, 132, 24, 198, 153, 179,
               46, 120, 171, 228, 45, 179, 34, 160, 218, 140, 26, 207, 167, 9,
               10, 198, 204, 36, 69>>
      [] base = "genesis_block" /\ i = 2 ->
             <<11, 79, 230, 190, 145, 230, 150, 130, 217, 225, 161, 231, 74,
               197, 248, 97, 163, 27, 137, 161, 253, 13, 213, 64, 199, 238, 0,
               216, 38, 68, 9, 139>>
      [] base = "block_0" /\ i = 0 ->
             <<73, 69, 110, 202, 63, 6, 225, 29, 16, 113, 71, 81, 103, 79, 200, 93, 30, 93, 140, 166, 249, 244, 170, 221, 130, 193, 255, 10, 30, 232, 155, 171>>
      [] base = "block_0" /\ i = 1 ->
             <<109, 100, 53, 28, 19, 98, 67, 124, 226, 208, 245, 31, 106, 25, 180, 121, 199, 18, 147, 37, 183, 9, 38, 91, 17, 41, 234, 219, 92, 117, 145, 125>>
      [] base = "block_0" /\ i = 2 ->
             <<186, 172, 249, 237, 171, 109, 75, 215, 21, 88, 149, 227, 228, 131, 241, 14, 191, 222, 223, 165, 153, 77, 236, 252, 120, 4, 32, 181, 99, 224, 12, 67>>
      [] base = "block_2" /\ i = 0 ->
             <<42, 55, 96, 218, 26, 103, 109, 16, 203, 109, 151, 250, 102, 9, 23, 204, 179, 8, 171, 245, 88, 97, 112, 228, 173, 148, 189, 46, 46, 248, 227, 182>>
      [] base = "block_2" /\ i = 1 ->
             <<252, 152, 13, 92, 10, 45, 108, 9, 65, 6, 120, 83, 88, 38, 81, 254, 120, 251, 116, 45, 8, 246, 99, 63, 232, 71, 129, 196, 29, 162, 23, 38>>
      [] base = "block_2" /\ i = 2 ->
             <<204, 162, 46, 50, 149, 33, 33, 197, 147, 55, 214, 156, 168, 16, 49, 20, 58, 88, 139, 54, 11, 117, 29, 234, 49, 61, 2, 200, 200, 193, 203, 170>>
      [] base = "block_3" /\ i = 0 ->
             <<146, 14, 170, 130, 59, 244, 214, 172, 228, 102, 172, 87, 19, 44, 215, 68, 130, 88, 247, 24, 221, 124, 241, 130, 214, 133, 216, 82, 60, 153, 216, 16>>
      [] base = "block_3" /\ i = 1 ->
             <<33, 199, 149, 237, 102, 196, 213, 0, 193, 42, 33, 125, 144, 198, 41, 67, 24, 26, 192, 94, 81, 83, 193, 157, 190, 92, 58, 4, 147, 155, 1, 50>>
      [] base = "block_3" /\ i = 2 ->
             <<144, 167, 16, 55, 22, 69, 183, 23, 59, 202, 157, 184, 215, 197, 251, 91, 217, 87, 167, 247, 46, 27, 181, 220, 198, 138, 200, 146, 167, 214, 10, 27>>

\* a ^ b on bytes
RECURSIVE XorBits(_, _, _)
XorBits(a, b, bits) ==
    IF bits = 0 THEN 0
    ELSE ((a + b) % 2) + 2 * XorBits(a \div 2, b \div 2, bits - 1)

\* bytes(a ^ b for a, b in zip(data, pattern))
XorZip(data, pattern) ==
    [j \in 1..Min(Len(data), Len(pattern)) |-> XorBits(data[j], pattern[j], 8)]

\* digest()[:len(data)]
Pattern(base, i, data) ==
    SubSeq(PatternSeed(base, i), 1, Min(DigestLen, Len(data)))

\* GenomeFragment.__init__; the quadrit sequence and the checksum, functions
\* of the data, are not kept
GenomeFragment(base, r, data, redundancy_level) ==
    [fragment_id |-> [base |-> base, r |-> r], data |-> data,
     redundancy_level |-> redundancy_level]

\* the fragment_id of a fragment that is no redundancy fragment
primary == 0 - 1

\* GenomeFragment.generate_redundancy_fragments
generate_redundancy_fragments(fragment) ==
    [k \in 1..fragment.redundancy_level |->
        GenomeFragment(fragment.fragment_id.base, k - 1,
                       XorZip(fragment.data,
                              Pattern(fragment.fragment_id.base, k - 1,
                                      fragment.data)),
                       0)]

\* node_fragments, a dict in insertion order: its keys
Keys(od) == [i \in 1..Len(od) |-> od[i].node]

HasKey(od, node) == \E i \in 1..Len(od) : od[i].node = node

\* node_fragments[node], of a defaultdict(list)
FragmentsOf(od, node) ==
    IF HasKey(od, node)
    THEN od[CHOOSE i \in 1..Len(od) : od[i].node = node].fragments
    ELSE <<>>

\* node_fragments[node].append(fragment)
AppendFragment(od, node, fragment) ==
    IF HasKey(od, node)
    THEN [i \in 1..Len(od) |->
             IF od[i].node = node
             THEN [od[i] EXCEPT !.fragments = Append(@, fragment)]
             ELSE od[i]]
    ELSE Append(od, [node |-> node, fragments |-> <<fragment>>])

\* del node_fragments[node]
DeleteKey(od, node) == SelectSeq(od, LAMBDA entry : entry.node # node)

\* fragment_locations[fragment_id], of a defaultdict(list)
LocationsOf(fl, fragment_id) ==
    IF fragment_id \in DOMAIN fl THEN fl[fragment_id] ELSE <<>>

\* fragment_locations[fragment_id].append(node)
AppendLocation(fl, fragment_id, node) ==
    DictSet(fl, fragment_id, Append(LocationsOf(fl, fragment_id), node))

\* list.remove(node): the list without the first occurrence of node; of a
\* list that does not hold the node it raises ValueError, and the operator
\* has no value
RemoveFirst(seq, x) ==
    LET first == CHOOSE i \in 1..Len(seq) :
                     seq[i] = x /\ \A j \in 1..(i - 1) : seq[j] # x
    IN  SubSeq(seq, 1, first - 1) \o SubSeq(seq, first + 1, Len(seq))

\* DistributedMatrix.distribute_fragment, the loop over the redundancy
\* fragments
RECURSIVE distribute_redundancy(_, _, _, _)
distribute_redundancy(matrix, redundant, i, target_nodes) ==
    IF i >= Len(redundant) THEN matrix
    ELSE distribute_redundancy(
             IF i + 1 < Len(target_nodes)
             THEN [nf |-> AppendFragment(matrix.nf, target_nodes[i + 2],
                                         redundant[i + 1]),
                   fl |-> AppendLocation(matrix.fl,
                                         redundant[i + 1].fragment_id,
                                         target_nodes[i + 2])]
             ELSE matrix,
             redundant, i + 1, target_nodes)

\* DistributedMatrix.distribute_fragment
distribute(matrix, fragment, target_nodes) ==
    LET primary_node == target_nodes[1]
    IN  distribute_redundancy(
            [nf |-> AppendFragment(matrix.nf, primary_node, fragment),
             fl |-> AppendLocation(matrix.fl, fragment.fragment_id,
                                   primary_node)],
            generate_redundancy_fragments(fragment), 0, target_nodes)

\* simulate_node_failure, the loop over the fragments of one failed node
RECURSIVE lose_fragments(_, _, _)
lose_fragments(lost, fragments, node) ==
    IF fragments = <<>> THEN lost
    ELSE lose_fragments(
             [ids |-> Append(lost.ids, Head(fragments).fragment_id),
              fl |-> [lost.fl EXCEPT ![Head(fragments).fragment_id] =
                         RemoveFirst(@, node)]],
             Tail(fragments), node)

\* simulate_node_failure, the loop over the failed nodes
RECURSIVE remove_failed(_, _)
remove_failed(removed, failed) ==
    IF failed = <<>> THEN removed
    ELSE LET node == Head(failed)
             lost == lose_fragments([ids |-> removed.ids, fl |-> removed.fl],
                                    FragmentsOf(removed.nf, node), node)
         IN  remove_failed(
                 IF HasKey(removed.nf, node)
                 THEN [nf |-> DeleteKey(removed.nf, node), fl |-> lost.fl,
                       ids |-> lost.ids]
                 ELSE removed,
                 Tail(failed))

\* frag_id.startswith(f"{base_id}_r") and locations
available_redundant(fl, base) ==
    {id \in DOMAIN fl : id.base = base /\ id.r # primary /\ fl[id] # <<>>}

\* DistributedMatrix.regenerate_lost_fragments: the locations, the count of
\* regenerations, the fragments logged as regenerating and the count of
\* fragments logged as not regenerable
RECURSIVE regenerate_lost_fragments(_, _, _)
regenerate_lost_fragments(state, nf, lost_fragment_ids) ==
    IF lost_fragment_ids = <<>> THEN state
    ELSE LET fragment_id == Head(lost_fragment_ids)
             surviving_nodes == Keys(nf)
         IN  regenerate_lost_fragments(
                 IF LocationsOf(state.fl, fragment_id) # <<>> THEN state
                 ELSE IF available_redundant(state.fl, fragment_id.base) # {}
                 THEN [fl |-> IF surviving_nodes # <<>>
                              THEN AppendLocation(state.fl, fragment_id,
                                                  surviving_nodes[1])
                              ELSE DictSet(state.fl, fragment_id, <<>>),
                       count |-> state.count + 1,
                       logged |-> state.logged \cup {fragment_id},
                       errors |-> state.errors]
                 ELSE [fl |-> DictSet(state.fl, fragment_id, <<>>),
                       count |-> state.count,
                       logged |-> state.logged,
                       errors |-> state.errors + 1],
                 nf, Tail(lost_fragment_ids))

Custodians == <<"NeuralNode-01", "NeuralNode-02", "NeuralNode-03", "NeuralNode-04">>

\* the first four neural nodes, networks of one and of two nodes, another
\* order, and no node at all
TargetLists ==
    { Custodians, <<Custodians[1]>>, <<Custodians[1], Custodians[2]>>,
      <<Custodians[2], Custodians[1], Custodians[4], Custodians[3]>>, <<>> }

FragmentIds == {"block_1", "genesis_block"}

BlockBytes ==
    <<123, 34, 98, 108, 111, 99, 107, 95, 110, 117, 109, 98, 101, 114, 34, 58,
      32, 49, 44, 32, 34, 116, 105, 109, 101, 115, 116, 97, 109, 112, 34, 58,
      32, 48, 125>>

\* payloads shorter than a digest, as long, and longer
Payloads ==
    { SubSeq(BlockBytes, 1, n) : n \in {1, DigestLen, DigestLen + 1} }

\* the nodes failed together: one, two, three or all of the custodians
FailureLists ==
    { SelectSeq(Custodians, LAMBDA node : node \in chosen) :
          chosen \in SUBSET {Custodians[i] : i \in 1..Len(Custodians)} \ {{}} }

InitFrag ==
    /\ node_fragments = <<>>
    /\ fragment_locations = <<>>
    /\ regeneration_count = 0
    /\ loss_reports = 0
    /\ regenerating_log = {}
    /\ payload = <<>>
    /\ failed_nodes = {}
    /\ sha = <<>>
    /\ IdleV8 /\ IdlePow /\ IdleQuad /\ IdleRace /\ IdleEnh

\* distribute_fragment(GenomeFragment(fragment_id, data), target_nodes)
distribute_fragment(base, data, target_nodes) ==
    LET fragment == GenomeFragment(base, primary, data, 3)
        matrix == distribute([nf |-> node_fragments, fl |-> fragment_locations],
                             fragment, target_nodes)
    IN  /\ base \notin DOMAIN payload
        /\ Cardinality(DOMAIN payload) < MaxFragments
        /\ IF target_nodes = <<>>
           THEN \* target_nodes[0] raises IndexError
                UNCHANGED <<node_fragments, fragment_locations, payload>>
           ELSE /\ node_fragments' = matrix.nf
                /\ fragment_locations' = matrix.fl
                /\ payload' =
                       DictSet(payload, base,
                               [data |-> data, target_nodes |-> target_nodes,
                                failed_before |-> failed_nodes])
        /\ UNCHANGED <<regeneration_count, loss_reports, regenerating_log,
                       failed_nodes>>

\* simulate_node_failure(failed)
simulate_node_failure(failed) ==
    LET removed == remove_failed([nf |-> node_fragments,
                                  fl |-> fragment_locations, ids |-> <<>>],
                                 failed)
        regenerated ==
            regenerate_lost_fragments(
                [fl |-> removed.fl, count |-> regeneration_count,
                 logged |-> regenerating_log, errors |-> loss_reports],
                removed.nf, removed.ids)
    IN  /\ node_fragments' = removed.nf
        /\ fragment_locations' = regenerated.fl
        /\ regeneration_count' = regenerated.count
        /\ regenerating_log' = regenerated.logged
        /\ loss_reports' = regenerated.errors
        /\ failed_nodes' = failed_nodes \cup {failed[i] : i \in 1..Len(failed)}
        /\ UNCHANGED payload

\* the fragments regeneration is asked for again: one fragment the store
\* has a record of, or the same fragment twice
RegenerationRequests ==
    UNION { {<<id>>, <<id, id>>} : id \in DOMAIN fragment_locations }

\* regenerate_lost_fragments(lost_fragment_ids), called on its own
regenerate_fragments(lost_fragment_ids) ==
    LET regenerated ==
            regenerate_lost_fragments(
                [fl |-> fragment_locations, count |-> regeneration_count,
                 logged |-> regenerating_log, errors |-> loss_reports],
                node_fragments, lost_fragment_ids)
    IN  /\ regeneration_count < MaxRegenerations
        /\ loss_reports < MaxLossReports
        /\ fragment_locations' = regenerated.fl
        /\ regeneration_count' = regenerated.count
        /\ regenerating_log' = regenerated.logged
        /\ loss_reports' = regenerated.errors
        /\ UNCHANGED <<node_fragments, payload, failed_nodes>>

NextFrag ==
    \/ \E base \in FragmentIds, data \in Payloads, targets \in TargetLists :
           /\ distribute_fragment(base, data, targets)
           /\ UNCHANGED <<sha, v8vars, powvars, quadvars, racevars, loopvars,
                          enhvars>>
    \/ \E failed \in FailureLists :
           /\ simulate_node_failure(failed)
           /\ UNCHANGED <<sha, v8vars, powvars, quadvars, racevars, loopvars,
                          enhvars>>
    \/ \E lost_fragment_ids \in RegenerationRequests :
           /\ regenerate_fragments(lost_fragment_ids)
           /\ UNCHANGED <<sha, v8vars, powvars, quadvars, racevars, loopvars,
                          enhvars>>

SpecFrag == InitFrag /\ [][NextFrag]_vars

(***************************************************************************)
(* quadrits.py: the quadrit codec                                          *)
(***************************************************************************)
BITS_TO_QUADRIT == [bits \in 0..3 |-> <<"A", "T", "C", "G">>[bits + 1]]

QUADRIT_TO_BITS ==
    [q \in {"A", "T", "C", "G"} |-> CHOOSE bits \in 0..3 : BITS_TO_QUADRIT[bits] = q]

\* byte >> 6, byte >> 4, byte >> 2, byte: the divisors of the four shifts
Shifts == <<64, 16, 4, 1>>

\* a mistaken shift: the third quadrit of each byte is written twice
encode_with_repeated_shift(data) ==
    [k \in 1..(4 * Len(data)) |->
        BITS_TO_QUADRIT[(data[((k - 1) \div 4) + 1]
                            \div <<64, 16, 4, 4>>[((k - 1) % 4) + 1]) % 4]]

\* encode_to_quadrits
encode_to_quadrits(data) ==
    [k \in 1..(4 * Len(data)) |->
        BITS_TO_QUADRIT[(data[((k - 1) \div 4) + 1]
                            \div Shifts[((k - 1) % 4) + 1]) % 4]]

\* decode_from_quadrits, of a sequence whose length is a multiple of 4; the
\* four pairs of bits do not overlap, so | is +
decode_from_quadrits(quadrits) ==
    [k \in 1..(Len(quadrits) \div 4) |->
        QUADRIT_TO_BITS[quadrits[4 * (k - 1) + 1]] * 64
        + QUADRIT_TO_BITS[quadrits[4 * (k - 1) + 2]] * 16
        + QUADRIT_TO_BITS[quadrits[4 * (k - 1) + 3]] * 4
        + QUADRIT_TO_BITS[quadrits[4 * (k - 1) + 4]]]

\* bytes with every pair of bits in every position, and the bytes 0x1B and
\* 0xE4 whose four quadrits differ
SampleBytes == {17 * n : n \in 0..15} \cup {27, 228}

RECURSIVE ByteStrings(_)
ByteStrings(n) ==
    IF n = 0 THEN {<<>>}
    ELSE ByteStrings(n - 1)
             \cup {Append(x, b) : x \in {y \in ByteStrings(n - 1) : Len(y) = n - 1},
                                   b \in SampleBytes}

InitQuad ==
    /\ IdleQuad /\ IdleRace /\ IdleEnh
    /\ sha = <<>>
    /\ IdleV8 /\ IdlePow /\ IdleFrag

\* quadrit_encoded = encode_to_quadrits(data)
quadrit_encode(data) ==
    /\ q_pc = "idle"
    /\ q_input' = data
    /\ q_quadrits' = encode_to_quadrits(data)
    /\ q_output' = <<>>
    /\ q_pc' = "encoded"

\* decoded = decode_from_quadrits(quadrit_encoded)
quadrit_decode ==
    /\ q_pc = "encoded"
    /\ IF Len(q_quadrits) % 4 # 0
       THEN q_pc' = "ValueError" /\ UNCHANGED q_output
       ELSE q_pc' = "decoded" /\ q_output' = decode_from_quadrits(q_quadrits)
    /\ UNCHANGED <<q_input, q_quadrits>>

NextQuad ==
    \/ \E data \in ByteStrings(MaxBytes) :
           /\ quadrit_encode(data)
           /\ UNCHANGED <<sha, v8vars, powvars, fragvars, racevars, loopvars,
                          enhvars>>
    \/ /\ quadrit_decode
       /\ UNCHANGED <<sha, v8vars, powvars, fragvars, racevars, loopvars,
                      enhvars>>

SpecQuad == InitQuad /\ [][NextQuad]_vars

(***************************************************************************)
(* The two decoders on the quadrit sequences a caller can hand them        *)
(***************************************************************************)
RECURSIVE QuadritSequences(_)
QuadritSequences(n) ==
    IF n = 0 THEN {<<>>}
    ELSE QuadritSequences(n - 1)
             \cup {Append(x, q) : x \in {y \in QuadritSequences(n - 1) : Len(y) = n - 1},
                                   q \in {"A", "T", "C", "G"}}

\* QuadritEncoder.quadrits_to_bytes (simulator.py): the list of the caller
\* after quadrits.extend, and the bytes returned
quadrits_to_bytes(quadrits) ==
    LET padded ==
            IF Len(quadrits) % 4 # 0
            THEN quadrits \o [k \in 1..(4 - (Len(quadrits) % 4)) |-> "A"]
            ELSE quadrits
    IN  [quadrits |-> padded,
         result |-> [k \in 1..(Len(padded) \div 4) |->
                        QUADRIT_TO_BITS[padded[4 * (k - 1) + 1]] * 64
                        + QUADRIT_TO_BITS[padded[4 * (k - 1) + 2]] * 16
                        + QUADRIT_TO_BITS[padded[4 * (k - 1) + 3]] * 4
                        + QUADRIT_TO_BITS[padded[4 * (k - 1) + 4]]]]

\* the caller holds a list of quadrits and has called neither decoder
InitDecode ==
    /\ q_quadrits \in QuadritSequences(MaxQuadrits)
    /\ q_input = <<>>
    /\ q_output = <<>>
    /\ q_pc = "held"
    /\ sha = <<>>
    /\ IdleV8 /\ IdlePow /\ IdleFrag /\ IdleRace /\ IdleEnh

\* decode_from_quadrits(quadrits) of quadrits.py
call_decode_from_quadrits ==
    /\ q_pc = "held"
    /\ IF Len(q_quadrits) % 4 # 0
       THEN q_pc' = "ValueError" /\ UNCHANGED q_output
       ELSE q_pc' = "decoded" /\ q_output' = decode_from_quadrits(q_quadrits)
    /\ UNCHANGED <<q_input, q_quadrits>>

\* QuadritEncoder.quadrits_to_bytes(quadrits) of simulator.py
call_quadrits_to_bytes ==
    /\ q_pc = "held"
    /\ q_quadrits' = quadrits_to_bytes(q_quadrits).quadrits
    /\ q_output' = quadrits_to_bytes(q_quadrits).result
    /\ q_pc' = "padded"
    /\ UNCHANGED q_input

NextDecode ==
    \/ /\ call_decode_from_quadrits
       /\ UNCHANGED <<sha, v8vars, powvars, fragvars, racevars, loopvars,
                      enhvars>>
    \/ /\ call_quadrits_to_bytes
       /\ UNCHANGED <<sha, v8vars, powvars, fragvars, racevars, loopvars,
                      enhvars>>

SpecDecode == InitDecode /\ [][NextDecode]_vars

(***************************************************************************)
(* simulator.py and structures.py: what a transaction's hash is taken of   *)
(***************************************************************************)
\* str.encode('utf-8') on the characters the transactions are written in
ord ==
    [c \in {"a", "b", "c", ".", "0", "1", "2", "3"} |->
        CASE c = "a" -> 97 [] c = "b" -> 98 [] c = "c" -> 99 [] c = "." -> 46
          [] c = "0" -> 48 [] c = "1" -> 49 [] c = "2" -> 50 [] c = "3" -> 51]

encode_utf8(text) == [i \in 1..Len(text) |-> ord[text[i]]]

\* f"{n}" of an int
RECURSIVE str_int(_)
str_int(n) ==
    IF n < 10 THEN <<<<"0", "1", "2", "3", "4", "5", "6", "7", "8", "9">>[n + 1]>>
    ELSE str_int(n \div 10) \o str_int(n % 10)

\* f"{t}" of a float with a whole value
str_float(t) == str_int(t) \o <<".", "0">>

\* simulator.py, Transaction: strings are sequences of characters, the
\* timestamp is the whole value of the float
sim_Transaction(sender, recipient, amount, timestamp, data) ==
    [sender |-> sender, recipient |-> recipient, amount |-> amount,
     timestamp |-> timestamp, data |-> data]

\* Transaction.get_serialized_string
get_serialized_string(tx) ==
    tx.sender \o tx.recipient \o str_int(tx.amount)
        \o str_float(tx.timestamp) \o tx.data

\* QuadritEncoder.string_to_quadrits
string_to_quadrits(text) == encode_to_quadrits(encode_utf8(text))

\* structures.py, Transaction.to_dict of a transaction with the same content
structures_to_dict(tx) ==
    to_dict([sender |-> tx.sender, recipient |-> tx.recipient,
             amount |-> tx.amount,
             quadrit_data_payload |-> string_to_quadrits(tx.data),
             timestamp |-> tx.timestamp])

IdentityContents ==
    { sim_Transaction(sender, recipient, amount, timestamp, data) :
        sender \in { <<"a">>, <<"a", "b">> },
        recipient \in { <<"c">>, <<"b", "c">> },
        amount \in {1, 12}, timestamp \in {3, 23},
        data \in { <<>>, <<"c">> } }

\* two transactions have been created
InitIdentity ==
    /\ q_input \in IdentityContents \X IdentityContents
    /\ q_quadrits = <<>>
    /\ q_output = <<>>
    /\ q_pc = "created"
    /\ sha = <<>>
    /\ IdleV8 /\ IdlePow /\ IdleFrag /\ IdleRace /\ IdleEnh

\* simulator.py, Transaction.calculate_hash on both: the quadrits of the
\* serialized string and the bytes handed to sha512
sim_calculate_hash ==
    /\ q_pc = "created"
    /\ q_quadrits' = [i \in 1..2 |->
                         string_to_quadrits(get_serialized_string(q_input[i]))]
    /\ q_output' = [i \in 1..2 |-> quadrits_to_bytes(q_quadrits'[i]).result]
    /\ q_pc' = "hashed"
    /\ UNCHANGED q_input

\* structures.py, Transaction.calculate_hash on both: the dictionary dumped
\* with sorted keys and handed to hash_data
structures_calculate_hash ==
    /\ q_pc = "created"
    /\ q_quadrits' = [i \in 1..2 |-> string_to_quadrits(q_input[i].data)]
    /\ q_output' = [i \in 1..2 |->
                       [h |-> "tx", of |-> structures_to_dict(q_input[i])]]
    /\ q_pc' = "dumped"
    /\ UNCHANGED q_input

NextIdentity ==
    \/ /\ sim_calculate_hash
       /\ UNCHANGED <<sha, v8vars, powvars, fragvars, racevars, loopvars,
                      enhvars>>
    \/ /\ structures_calculate_hash
       /\ UNCHANGED <<sha, v8vars, powvars, fragvars, racevars, loopvars,
                      enhvars>>

SpecIdentity == InitIdentity /\ [][NextIdentity]_vars

(***************************************************************************)
(* simulator_claude.py: EnhancedBlockchain, its rounds and the attacks on  *)
(* its nodes                                                               *)
(***************************************************************************)
EnhancedAddresses ==
    <<"Neural-00", "Neural-01", "Neural-02", "Neural-03", "Neural-04",
      "Neural-05", "Neural-06", "Neural-07", "Neural-08">>

EnhancedValidators == <<"Validator-00", "Validator-01", "Validator-02">>

\* a reputation of EnhancedBlockchain, the fraction <<numerator,
\* denominator>>: 1.0, and the tenth of it that an attack leaves
full_reputation == <<1, 1>>

\* node.reputation *= 0.1, as the tenth it is of the value before; the
\* rounding of the float (0.1 * 0.1 is 0.010000000000000002) is left out,
\* which no comparison of the program can tell from the tenth
times_tenth(reputation) == <<reputation[1], reputation[2] * 10>>

\* reputation > numerator / denominator
above(reputation, numerator, denominator) ==
    reputation[1] * denominator > numerator * reputation[2]

\* EnhancedNeuralNode.__init__
EnhancedNeuralNode(address, is_honest) ==
    [address |-> address, is_honest |-> is_honest, stake |-> 1000,
     reputation |-> full_reputation, total_computations |-> 0,
     successful_attestations |-> 0]

\* the honesty of the nodes a network is built of: honest nodes only, more
\* of them than a block has fragments, a dishonest majority, a single node,
\* six honest nodes with three dishonest ones
EnhancedNetworks ==
    { <<TRUE, TRUE, TRUE, TRUE, TRUE>>, <<TRUE, FALSE, FALSE>>, <<TRUE>>,
      Repeat(TRUE, 6) \o Repeat(FALSE, 3) }

\* the lists handed to process_enhanced_consensus: no transaction, and the
\* three of a cycle of run_enhanced_simulation
EnhancedTransfers ==
    { <<>>,
      <<<<"Alice", "Bob", 50>>, <<"Bob", "Charlie", 30>>,
        <<"Charlie", "David", 20>>>> }

\* the lists handed to simulate_network_attack: one node, a node named
\* twice, an address of no node
AttackLists ==
    { <<"Neural-01">>, <<"Neural-00", "Neural-00">>, <<"Neural-09">> }

\* the first bytes of json.dumps(self.chain[0], sort_keys=True).encode(),
\* as many as a redundancy pattern reaches
GenesisBytes ==
    <<123, 34, 98, 108, 111, 99, 107, 95, 110, 117, 109, 98, 101, 114, 34, 58,
      32, 48, 44, 32, 34, 99, 111, 104, 101, 114, 101, 110, 99, 101, 95, 97>>

\* the first bytes of json.dumps(block_data, sort_keys=True).encode() of a
\* block with an attestation, as many as a redundancy pattern reaches
AttestedBlockBytes ==
    <<123, 34, 97, 116, 116, 101, 115, 116, 97, 116, 105, 111, 110, 115, 34,
      58, 32, 91, 123, 34, 110, 111, 100, 101, 34, 58, 32, 34, 78, 101, 117,
      114>>

\* f"block_{block_data['block_number']}"
BlockFragmentId(block_number) ==
    <<"block_0", "block_1", "block_2", "block_3">>[block_number + 1]

\* EnhancedBlockchain.__init__
InitEnhanced ==
    \E honesty \in EnhancedNetworks :
        /\ validator_nodes =
               [i \in 1..Len(EnhancedValidators) |->
                   [address |-> EnhancedValidators[i]]]
        /\ neural_nodes =
               [i \in 1..Len(honesty) |->
                   EnhancedNeuralNode(EnhancedAddresses[i], honesty[i])]
        /\ chain = <<>>
        /\ pending_transactions = <<>>
        /\ balances = <<>>
        /\ current_proposer_index = 0
        /\ performance_metrics =
               [total_blocks |-> 0, failed_consensus |-> 0,
                regeneration_events |-> 0, malicious_nodes_detected |-> 0]
        /\ node_fragments = <<>>
        /\ fragment_locations = <<>>
        /\ regeneration_count = 0
        /\ loss_reports = 0
        /\ regenerating_log = {}
        /\ payload = <<>>
        /\ failed_nodes = {}
        /\ versions = <<>>
        /\ stencil_log = <<>>
        /\ now = 0
        /\ round = [id |-> 0, outcome |-> "none", attacks |-> 0,
                    initialized |-> FALSE, asked |-> 0, valid |-> 0]
        /\ script = 0
        /\ sha = <<>>
        /\ IdlePow /\ IdleQuad /\ IdleRace

\* EnhancedBlockchain._create_genesis_block; the previous_hash, '0' * 64, is
\* written short
enhanced_genesis_block ==
    [block_number |-> 0, timestamp |-> now, transactions |-> <<>>,
     previous_hash |-> Literal("0000"),
     coherence_anchors |->
         [network_state |-> "genesis", total_nodes |-> Len(neural_nodes),
          stencil_version |-> "v1.0"]]

\* self.neural_nodes[:min(4, len(self.neural_nodes))], the addresses
genesis_targets(nodes) ==
    [i \in 1..Min(4, Len(nodes)) |-> nodes[i].address]

\* EnhancedBlockchain.initialize_chain; the genesis block reads the clock
initialize_chain ==
    LET matrix == distribute([nf |-> node_fragments,
                              fl |-> fragment_locations],
                             GenomeFragment("genesis_block", primary,
                                            GenesisBytes, 3),
                             genesis_targets(neural_nodes))
    IN  /\ ~round.initialized
        /\ IF chain = <<>>
           THEN /\ chain' = <<enhanced_genesis_block>>
                /\ node_fragments' = matrix.nf
                /\ fragment_locations' = matrix.fl
                /\ now' = now + 1
           ELSE UNCHANGED <<chain, node_fragments, fragment_locations, now>>
        /\ round' = [round EXCEPT !.initialized = TRUE]
        /\ UNCHANGED <<sha, pending_transactions, balances,
                       current_proposer_index, validator_nodes, neural_nodes,
                       versions, stencil_log, regeneration_count,
                       loss_reports, regenerating_log, payload, failed_nodes,
                       performance_metrics, powvars, quadvars, racevars,
                       loopvars>>

\* run_enhanced_simulation, lines 525 to 530: blockchain.balances = {...},
\* before the first round
initialize_balances ==
    /\ round.id = 0
    /\ balances = <<>>
    /\ balances' =
           [a \in {"Alice", "Bob", "Charlie", "David"} |->
               CASE a = "Alice" -> 5000
                 [] a = "Bob" -> 3000
                 [] a = "Charlie" -> 2000
                 [] a = "David" -> 1000]
    /\ UNCHANGED <<sha, chain, pending_transactions, current_proposer_index,
                   validator_nodes, neural_nodes, versions, stencil_log, now,
                   round, fragvars, performance_metrics, powvars, quadvars,
                   racevars, loopvars>>

\* self.chain[-1].get('block_hash', '0') if self.chain else '0'
last_block_hash(blocks) ==
    IF blocks # <<>> /\ "block_hash" \in DOMAIN last_block(blocks)
    THEN last_block(blocks).block_hash
    ELSE Literal("0")

\* the denominator that every reputation of the nodes can be written over
RECURSIVE CommonDenominator(_)
CommonDenominator(nodes) ==
    IF nodes = <<>> THEN 1
    ELSE Max(Head(nodes).reputation[2], CommonDenominator(Tail(nodes)))

\* sum(node.reputation for node in self.neural_nodes), over that denominator
RECURSIVE SumReputation(_, _)
SumReputation(nodes, over) ==
    IF nodes = <<>> THEN 0
    ELSE Head(nodes).reputation[1] * (over \div Head(nodes).reputation[2])
             + SumReputation(Tail(nodes), over)

\* EnhancedBlockchain._calculate_network_health, as the fraction
\* (avg_reputation + honesty_ratio) / 2 of numerator and denominator
calculate_network_health(nodes) ==
    IF nodes = <<>> THEN <<0, 1>>
    ELSE LET over == CommonDenominator(nodes)
         IN  <<SumReputation(nodes, over)
                   + over * Len(SelectSeq(nodes, LAMBDA node : node.is_honest)),
               2 * over * Len(nodes)>>

\* EnhancedCipProof.__init__: every anchor of a round is a value that is
\* neither None nor the empty string
EnhancedCipProof(rna_template_hash, coherence_anchors) ==
    LET anchor_validations == [a \in DOMAIN coherence_anchors |-> TRUE]
    IN  [rna_template_hash |-> rna_template_hash,
         coherence_anchors |-> coherence_anchors,
         anchor_validations |-> anchor_validations,
         proof_hash |->
             hash_data([h |-> "proof",
                        of |-> <<rna_template_hash, coherence_anchors,
                                 anchor_validations>>])]

\* EnhancedCipProof.is_valid
anchors_valid(cip_proof) ==
    \A a \in DOMAIN cip_proof.anchor_validations :
        cip_proof.anchor_validations[a]

fake_proof ==
    EnhancedCipProof(fake_rna, [fake_anchor |-> "fake_value"])

\* simulator_claude.py, CipAttestation.__init__, built at the time the clock shows
EnhancedCipAttestation(cip_proof, node_address, time) ==
    [proof_hash |-> cip_proof.proof_hash, node_address |-> node_address,
     attestation_time |-> time,
     signature |->
         hash_data([h |-> "signature",
                    of |-> <<cip_proof.proof_hash, node_address, time>>])]

\* EnhancedNeuralNode.attest_to_cip: the attestation returned, built at the
\* time the clock shows, <<>> for None
enhanced_attest(node, cip_proof, time) ==
    IF node.is_honest /\ anchors_valid(cip_proof)
    THEN <<EnhancedCipAttestation(cip_proof, node.address, time)>>
    ELSE IF ~node.is_honest
    THEN <<EnhancedCipAttestation(fake_proof, node.address, time)>>
    ELSE <<>>

\* EnhancedNeuralNode.attest_to_cip: the counters of the node
after_attesting(node, cip_proof) ==
    [node EXCEPT !.total_computations = @ + 1,
                 !.successful_attestations =
                     IF node.is_honest /\ anchors_valid(cip_proof) THEN @ + 1
                     ELSE @]

\* the loop of lines 375 to 378 over the nodes asked, from the time the
\* clock shows: every attestation built takes a later reading
RECURSIVE collect_attestations(_, _, _)
collect_attestations(nodes, cip_proof, time) ==
    IF nodes = <<>> THEN <<>>
    ELSE LET attestation == enhanced_attest(Head(nodes), cip_proof, time)
         IN  attestation
                 \o collect_attestations(Tail(nodes), cip_proof,
                                         time + Len(attestation))

\* max(1, int(len(honest_nodes) * self.consensus_threshold))
required_attestations(honest_nodes) ==
    Max(1, (Len(honest_nodes) * 67) \div 100)

\* a round that appends its block and counts none
count_no_block(metrics) == metrics

\* self.performance_metrics['total_blocks'] += 1
count_block(metrics) == [metrics EXCEPT !.total_blocks = @ + 1]

\* EnhancedBlockchain._update_balances
RECURSIVE update_balances(_, _)
update_balances(bal, txs) ==
    IF txs = <<>> THEN bal
    ELSE LET tx == Head(txs)
             debited == IF tx.sender # "Network"
                        THEN DictSet(bal, tx.sender,
                                     DictGet(bal, tx.sender) - tx.amount)
                        ELSE bal
         IN  update_balances(
                 DictSet(debited, tx.recipient,
                         DictGet(debited, tx.recipient) + tx.amount),
                 Tail(txs))

\* EnhancedBlockchain._create_block: the block appended, at the time the
\* clock shows
enhanced_block(blocks, transactions, cip_proof, attestations, time) ==
    LET block_data ==
            [block_number |-> Len(blocks), timestamp |-> time,
             transactions |-> transactions,
             previous_hash |-> last_block_hash(blocks),
             cip_proof |->
                 [proof_hash |-> cip_proof.proof_hash,
                  coherence_anchors |-> cip_proof.coherence_anchors,
                  anchor_validations |-> cip_proof.anchor_validations],
             attestations |->
                 [i \in 1..Len(attestations) |->
                     [node |-> attestations[i].node_address,
                      signature |-> attestations[i].signature]]]
    IN  [a \in DOMAIN block_data \cup {"block_hash"} |->
            IF a = "block_hash"
            THEN hash_data([h |-> "block", of |-> block_data])
            ELSE block_data[a]]

\* EnhancedBlockchain._distribute_block_fragments: the nodes chosen
block_targets(nodes) ==
    LET available_nodes ==
            SelectSeq(nodes, LAMBDA node : above(node.reputation, 3, 10))
    IN  [i \in 1..Min(4, Len(available_nodes)) |-> available_nodes[i].address]

\* [node for node in self.neural_nodes if node.reputation > 0.5]
honest_nodes_of(nodes) ==
    SelectSeq(nodes, LAMBDA node : above(node.reputation, 1, 2))

\* EnhancedBlockchain.process_enhanced_consensus(transactions), from the call
\* to its return, the transactions created as the call is made; every
\* transaction, the anchors, every attestation and the block read the clock
process_enhanced_consensus(transfers) ==
    LET transactions ==
            [i \in 1..Len(transfers) |->
                Transaction(transfers[i][1], transfers[i][2], transfers[i][3],
                            now + i - 1)]
        rna_template_hash == hash_data([h |-> "rna", of |-> transactions])
        coherence_anchors ==
            [last_block_hash |-> last_block_hash(chain),
             total_transactions |-> Len(transactions),
             network_health |-> calculate_network_health(neural_nodes),
             timestamp |-> now + Len(transfers)]
        cip_proof == EnhancedCipProof(rna_template_hash, coherence_anchors)
        honest_nodes == honest_nodes_of(neural_nodes)
        attestations ==
            collect_attestations(honest_nodes, cip_proof,
                                 now + Len(transfers) + 1)
        attested == now + Len(transfers) + 1 + Len(attestations)
        valid_attestations ==
            SelectSeq(attestations,
                      LAMBDA att : att.proof_hash = cip_proof.proof_hash)
        block == enhanced_block(chain, transactions, cip_proof,
                                valid_attestations, attested)
        target_nodes == block_targets(neural_nodes)
        matrix == distribute([nf |-> node_fragments,
                              fl |-> fragment_locations],
                             GenomeFragment(BlockFragmentId(block.block_number),
                                            primary, AttestedBlockBytes, 3),
                             target_nodes)
        tallied == [round EXCEPT !.id = @ + 1,
                                 !.asked = Len(honest_nodes),
                                 !.valid = Len(valid_attestations)]
    IN  /\ IF transfers = <<>>
           THEN /\ round' = [round EXCEPT !.outcome = "refused"]
                /\ UNCHANGED <<chain, balances, current_proposer_index,
                               neural_nodes, now, node_fragments,
                               fragment_locations, performance_metrics>>
           ELSE /\ current_proposer_index' =
                       (current_proposer_index + 1) % Len(validator_nodes)
                /\ neural_nodes' =
                       [i \in 1..Len(neural_nodes) |->
                           IF above(neural_nodes[i].reputation, 1, 2)
                           THEN after_attesting(neural_nodes[i], cip_proof)
                           ELSE neural_nodes[i]]
                /\ IF Len(valid_attestations)
                          >= required_attestations(honest_nodes)
                   THEN /\ chain' = Append(chain, block)
                        /\ now' = attested + 1
                        /\ IF target_nodes # <<>>
                           THEN /\ node_fragments' = matrix.nf
                                /\ fragment_locations' = matrix.fl
                           ELSE UNCHANGED <<node_fragments, fragment_locations>>
                        /\ balances' = update_balances(balances, transactions)
                        /\ performance_metrics' =
                               count_block(performance_metrics)
                        /\ round' = [tallied EXCEPT !.outcome = "committed"]
                   ELSE /\ performance_metrics' =
                               [performance_metrics EXCEPT
                                   !.failed_consensus = @ + 1]
                        /\ now' = attested
                        /\ round' = [tallied EXCEPT !.outcome = "failed"]
                        /\ UNCHANGED <<chain, balances, node_fragments,
                                       fragment_locations>>
        /\ UNCHANGED <<sha, pending_transactions, validator_nodes, versions,
                       stencil_log, regeneration_count, loss_reports,
                       regenerating_log, payload, failed_nodes,
                       powvars, quadvars, racevars, loopvars>>

\* simulate_network_attack, the loop marking the nodes as malicious: the
\* nodes and the count of nodes marked
RECURSIVE mark_malicious(_, _)
mark_malicious(marked, attack_nodes) ==
    IF attack_nodes = <<>> THEN marked
    ELSE LET node_addr == Head(attack_nodes)
             hit(node) == node.address = node_addr
         IN  mark_malicious(
                 [nodes |->
                      [i \in 1..Len(marked.nodes) |->
                          IF hit(marked.nodes[i])
                          THEN [marked.nodes[i] EXCEPT
                                    !.is_honest = FALSE,
                                    !.reputation = times_tenth(@)]
                          ELSE marked.nodes[i]],
                  detected |->
                      marked.detected + Len(SelectSeq(marked.nodes, hit))],
                 Tail(attack_nodes))

\* EnhancedBlockchain.simulate_network_attack(attack_nodes)
simulate_network_attack(attack_nodes) ==
    LET marked == mark_malicious(
                      [nodes |-> neural_nodes,
                       detected |->
                           performance_metrics.malicious_nodes_detected],
                      attack_nodes)
    IN  /\ round.attacks < MaxAttacks
        /\ neural_nodes' = marked.nodes
        /\ simulate_node_failure(attack_nodes)
        /\ performance_metrics' =
               [performance_metrics EXCEPT
                   !.malicious_nodes_detected = marked.detected,
                   !.regeneration_events = @ + regeneration_count']
        /\ round' = [round EXCEPT !.attacks = @ + 1]
        /\ UNCHANGED <<sha, chain, pending_transactions, balances,
                       current_proposer_index, validator_nodes, versions,
                       stencil_log, now, powvars, quadvars, racevars,
                       loopvars>>

NextEnhanced ==
    \/ initialize_chain
    \/ initialize_balances
    \/ \E transfers \in EnhancedTransfers :
           /\ round.id < MaxEnhancedRounds
           /\ process_enhanced_consensus(transfers)
    \/ \E attack_nodes \in AttackLists : simulate_network_attack(attack_nodes)

SpecEnhanced == InitEnhanced /\ [][NextEnhanced]_vars

(***************************************************************************)
(* Blockchain.slash_node called from two rounds at the same time           *)
(***************************************************************************)
\* the two rounds under way, each slashing neural_nodes[1]
Slashers == {1, 2}

\* a call of slash_node that has not begun
NotBegun == [pc |-> "start", slash_amount |-> 0, read |-> 0]

InitRace ==
    \E n \in NeuralStandings :
        LET genesis == create_genesis_block(<<>>)
        IN  /\ sha = genesis.sha
            /\ chain = <<genesis.block>>
            /\ pending_transactions = <<>>
            /\ validator_nodes =
                   <<Node(ValidatorAddresses[1], OfficialVersion, TRUE)>>
            /\ neural_nodes =
                   <<Standing(Node(NeuralAddresses[1], OfficialVersion, FALSE), n)>>
            /\ balances =
                   TreasuryOf(InitialBalances(validator_nodes, neural_nodes),
                              validator_nodes, neural_nodes)
            /\ current_proposer_index = 0
            /\ versions = register_version(<<>>, OfficialVersion,
                                           SoftwareName(OfficialVersion))
            /\ stencil_log = <<>>
            /\ now = 1
            /\ round = NoRound
            /\ script = 0
            /\ slashers = [calls |-> [t \in Slashers |-> NotBegun],
                           node |-> neural_nodes[1],
                           balances |-> balances]
            /\ IdlePow /\ IdleFrag /\ IdleQuad /\ IdleEnh

\* one step of slash_node(neural_nodes[1]) in round t.  There is no lock:
\* each statement reads the attribute and writes it back in two steps, and
\* the other call may run in between.
slash_node_step(t) ==
    LET call == slashers.calls[t]
        node == neural_nodes[1]
        goes(pc, amount, read) ==
            slashers' = [slashers EXCEPT !.calls[t] =
                            [pc |-> pc, slash_amount |-> amount, read |-> read]]
    IN  /\ call.pc # "done"
        /\ CASE call.pc = "start" ->
                  \* slash_amount = min(node.stake, self.slashing_penalty)
                  \* if slash_amount > 0:
                  /\ goes(IF slash_amount(node) > 0 THEN "load_stake" ELSE "done",
                          slash_amount(node), 0)
                  /\ UNCHANGED <<neural_nodes, balances>>
             [] call.pc = "load_stake" ->
                  \* node.stake -= slash_amount, the read
                  /\ goes("store_stake", call.slash_amount, node.stake)
                  /\ UNCHANGED <<neural_nodes, balances>>
             [] call.pc = "store_stake" ->
                  \* node.stake -= slash_amount, the write
                  /\ neural_nodes' =
                         [neural_nodes EXCEPT ![1].stake =
                             call.read - call.slash_amount]
                  /\ goes("load_reputation", call.slash_amount, 0)
                  /\ UNCHANGED balances
             [] call.pc = "load_reputation" ->
                  \* node.reputation = max(0, node.reputation - 0.5), the read
                  /\ goes("store_reputation", call.slash_amount, node.reputation)
                  /\ UNCHANGED <<neural_nodes, balances>>
             [] call.pc = "store_reputation" ->
                  \* node.reputation = max(0, node.reputation - 0.5), the write
                  /\ neural_nodes' =
                         [neural_nodes EXCEPT ![1].reputation =
                             Max(0, call.read - slash_reputation_decrement)]
                  /\ goes("load_treasury", call.slash_amount, 0)
                  /\ UNCHANGED balances
             [] call.pc = "load_treasury" ->
                  \* self.balances.get(self.treasury_address, 0)
                  /\ goes("store_treasury", call.slash_amount,
                          DictGet(balances, treasury_address))
                  /\ UNCHANGED <<neural_nodes, balances>>
             [] call.pc = "store_treasury" ->
                  \* self.balances[self.treasury_address] = ... + slash_amount
                  /\ balances' =
                         DictSet(balances, treasury_address,
                                 call.read + call.slash_amount * BalanceUnit)
                  /\ goes("done", call.slash_amount, 0)
                  /\ UNCHANGED neural_nodes
        /\ UNCHANGED <<sha, chain, pending_transactions, current_proposer_index,
                       validator_nodes, versions, stencil_log, now, round,
                       powvars, fragvars, quadvars, enhvars,
                       loopvars>>

NextRace == \E t \in Slashers : slash_node_step(t)

SpecRace == InitRace /\ [][NextRace]_vars

(***************************************************************************)
(* simulator_v7.py: the ledger of the archived version 7.2.  Its           *)
(* transactions, templates, proofs, attestations, nodes, Stencil,          *)
(* add_transaction and threshold are those of simulator_v8.py; what        *)
(* differs is written here.                                                *)
(***************************************************************************)
v7_slashing_penalty == 50
v7_slash_reputation_decrement == 25

\* Block.calculate_hash: the block without its hash, the transactions by
\* their hashes, the attestations sorted by address
v7_block_dump(block) ==
    [h |-> "block",
     of |-> [block_number |-> block.block_number,
             timestamp |-> block.timestamp,
             transactions |-> [i \in 1..Len(block.transactions) |->
                                  tx_calculate_hash(block.transactions[i])],
             previous_hash |-> block.previous_hash,
             rna_template_hash |-> block.rna_template_hash,
             winning_cip_proof |-> block.winning_cip_proof,
             attestations |-> SortByAddress(block.attestations)]]

\* Block(...), then the assignments of its proof, attestations and hash
v7_Block(tbl, number, timestamp, transactions, previous_hash, rna_hash, proof, atts) ==
    LET unhashed ==
            [block_number |-> number, timestamp |-> timestamp,
             transactions |-> transactions, previous_hash |-> previous_hash,
             rna_template_hash |-> rna_hash, winning_cip_proof |-> proof,
             attestations |-> atts, block_hash |-> no_hash]
        digest == hash_data(v7_block_dump(unhashed))
    IN  [sha |-> remember(tbl, digest),
         block |-> [unhashed EXCEPT !.block_hash = abbreviated(tbl, digest)]]

\* Blockchain.create_genesis_block
v7_create_genesis_block(tbl) ==
    LET genesis_rna == RnaTemplateHash(<<>>, "genesis_proposer", 0)
        genesis_cip_proof ==
            CipProof(genesis_rna, hash_data(str_dump("genesis_anchors")))
    IN  v7_Block(tbl, 0, 0, <<>>, zero_hash, genesis_rna, genesis_cip_proof,
                 <<CipAttestation(genesis_cip_proof, "genesis_calculator")>>)

\* sum(self.balances.values())
RECURSIVE v7_total_supply(_)
v7_total_supply(bal) ==
    IF DOMAIN bal = {} THEN 0
    ELSE LET a == CHOOSE account \in DOMAIN bal : TRUE
         IN  bal[a] + v7_total_supply([b \in DOMAIN bal \ {a} |-> bal[b]])

\* Blockchain.get_coherence_anchors
v7_get_coherence_anchors(bal, blocks) ==
    [h |-> "anchors",
     of |-> [total_supply |-> v7_total_supply(bal),
             last_block_hash |-> last_block(blocks).block_hash]]

\* Blockchain.slash_node: the node
v7_slash_amount(node) == Min(node.stake, v7_slashing_penalty)

v7_slash_node(node) ==
    IF v7_slash_amount(node) > 0
    THEN [node EXCEPT !.stake = @ - v7_slash_amount(node),
                      !.reputation = Max(0, @ - v7_slash_reputation_decrement)]
    ELSE node

\* Blockchain.slash_node: the treasury's balance
v7_slash_credit(bal, node) ==
    IF v7_slash_amount(node) > 0
    THEN DictSet(bal, treasury_address,
                 DictGet(bal, treasury_address)
                     + v7_slash_amount(node) * BalanceUnit)
    ELSE bal

\* the slashing loops of lines 219-222 and 226-227: of a round that reached
\* consensus the participants that have an attestation and attested to
\* another proof, of a failed round every participant
v7_should_slash(atts, node, reached, core_hash) ==
    IF reached
    THEN /\ node_attestation(atts, node.address) # no_hash
         /\ node_attestation(atts, node.address) # core_hash
    ELSE TRUE

v7_slash_participants(nodes, part, atts, reached, core_hash) ==
    [i \in 1..Len(nodes) |->
        IF (\E k \in 1..Len(part) : part[k] = i)
              /\ v7_should_slash(atts, nodes[i], reached, core_hash)
        THEN v7_slash_node(nodes[i])
        ELSE nodes[i]]

RECURSIVE v7_slash_credits(_, _, _, _, _, _)
v7_slash_credits(bal, nodes, part, atts, reached, core_hash) ==
    IF part = <<>> THEN bal
    ELSE v7_slash_credits(
             IF v7_should_slash(atts, nodes[Head(part)], reached, core_hash)
             THEN v7_slash_credit(bal, nodes[Head(part)])
             ELSE bal,
             nodes, Tail(part), atts, reached, core_hash)

\* update_balances_and_rewards, the loop over the transactions; the rewards
\* are those of simulator_v8.py but for the proposer's reputation, which is
\* not raised
RECURSIVE v7_apply_transactions(_, _)
v7_apply_transactions(bal, txs) ==
    IF txs = <<>> THEN bal
    ELSE LET tx == Head(txs)
             debited == DictSet(bal, tx.sender,
                                DictGet(bal, tx.sender)
                                    - tx.amount * BalanceUnit)
         IN  v7_apply_transactions(
                 DictSet(debited, tx.recipient,
                         DictGet(debited, tx.recipient)
                             + tx.amount * BalanceUnit),
                 Tail(txs))

\* the networks the ledger is started on: that of the main script, a
\* validator that is not compliant, two honest attesters beside a dishonest
\* one, and the small ones
V7Networks ==
    { <<Repeat("honest", 3),
        <<"honest", "honest", "honest", "dishonest", "noncompliant">>>>,
      <<<<"noncompliant">>, <<"honest">>>>,
      <<<<"honest">>, <<"honest", "honest", "dishonest">>>>,
      <<<<"honest">>, <<"honest">>>>,
      <<<<"honest">>, <<"dishonest">>>>,
      <<<<"honest">>, <<"noncompliant">>>> }

\* section 6 of simulator_v7.py on one of the networks, Alice and Bob with
\* funds
InitV7 ==
    \E network \in V7Networks :
        LET genesis == v7_create_genesis_block(<<>>)
            vkinds == network[1]
            nkinds == network[2]
        IN  /\ sha = genesis.sha
            /\ chain = <<genesis.block>>
            /\ pending_transactions = <<>>
            /\ validator_nodes = MakeNodes(ValidatorAddresses, vkinds)
            /\ neural_nodes = MakeNodes(NeuralAddresses, nkinds)
            /\ balances =
                   DictSet(InitialBalances(validator_nodes, neural_nodes),
                           "Bob", InitialFunds * BalanceUnit)
            /\ current_proposer_index = 0
            /\ versions = register_version(<<>>, OfficialVersion,
                                           SoftwareName(OfficialVersion))
            /\ stencil_log = <<>>
            /\ now = 1
            /\ round = NoRound
            /\ script = 0
            /\ IdlePow /\ IdleFrag /\ IdleQuad /\ IdleRace /\ IdleEnh

\* the transfers of the main script, from Alice or from Bob to Charlie
V7TxInputs == { <<"Alice", "Charlie", 1>>, <<"Bob", "Charlie", 1>> }

\* Blockchain.process_block_creation_cycle() of simulator_v7.py, from the
\* call to its return
v7_process_block_creation_cycle ==
    IF pending_transactions = <<>>
    THEN UNCHANGED ledgervars
    ELSE
    LET proposer == current_proposer_index + 1
        proposer_node == validator_nodes[proposer]
        transactions_for_block == pending_transactions
        rna_template_hash ==
            RnaTemplateHash(transactions_for_block, proposer_node.address, now)
        part == participating_nodes(versions, neural_nodes)
        core_cip_proof ==
            CipProof(rna_template_hash,
                     hash_data(v7_get_coherence_anchors(balances, chain)))
        attestations == attest_all(neural_nodes, part, core_cip_proof)
        threshold == cip_consensus_threshold(Len(part))
        \* the test of line 216: the core proof has the threshold of
        \* attestations
        reached == proof_count(attestations, core_cip_proof.proof_hash)
                       >= threshold
        slashed_nodes ==
            v7_slash_participants(neural_nodes, part, attestations, reached,
                                  core_cip_proof.proof_hash)
        slashed_balances ==
            v7_slash_credits(balances, neural_nodes, part, attestations,
                             reached, core_cip_proof.proof_hash)
        agreeing ==
            winning_attestations(attestations, core_cip_proof.proof_hash)
        welded == v7_Block(sha, Len(chain), now + 1, transactions_for_block,
                           last_block(chain).block_hash, rna_template_hash,
                           core_cip_proof, agreeing)
        contributing == [i \in 1..Len(agreeing) |-> agreeing[i].node_address]
        settled ==
            v7_apply_transactions(slashed_balances, transactions_for_block)
        this_round ==
            [NoRound EXCEPT !.id = round.id + 1,
                            !.outcome = "proposer_rejected",
                            !.proposer = proposer,
                            !.reads = round.reads]
        tallied ==
            [this_round EXCEPT
                !.participants = part,
                !.attested = [i \in 1..Len(attestations) |->
                                 attestations[i].proof_hash],
                !.expected = core_cip_proof.proof_hash,
                !.winning = IF reached THEN core_cip_proof.proof_hash
                            ELSE no_hash,
                !.winning_count =
                    proof_count(attestations, core_cip_proof.proof_hash),
                !.threshold = threshold]
    IN  /\ current_proposer_index' =
               next_proposer_index(current_proposer_index, validator_nodes)
        /\ pending_transactions' = <<>>
        /\ UNCHANGED <<versions, stencil_log, powvars, fragvars, quadvars,
                       racevars, enhvars>>
        \* the test of line 189: the proposer is turned away for its software
        \* alone
        /\ IF ~is_compliant(versions, proposer_node)
           THEN /\ validator_nodes' =
                       [validator_nodes EXCEPT ![proposer] = v7_slash_node(@)]
                /\ balances' = v7_slash_credit(balances, proposer_node)
                /\ round' = this_round
                /\ UNCHANGED <<sha, chain, neural_nodes, now>>
           ELSE IF part = <<>>
           THEN /\ now' = now + 1
                /\ round' = [this_round EXCEPT !.outcome = "no_attesters",
                                               !.reads = @ + 1]
                /\ UNCHANGED <<sha, chain, balances, validator_nodes,
                               neural_nodes>>
           ELSE IF ~reached
           THEN /\ neural_nodes' = slashed_nodes
                /\ balances' = slashed_balances
                /\ now' = now + 1
                /\ round' = [tallied EXCEPT !.outcome = "aborted",
                                            !.reads = @ + 1]
                /\ UNCHANGED <<sha, chain, validator_nodes>>
           ELSE /\ sha' = welded.sha
                /\ chain' = Append(chain, welded.block)
                /\ now' = now + 2
                /\ balances' = reward_balances(settled, proposer_node.address,
                                               contributing)
                /\ neural_nodes' = reward_attesters(slashed_nodes, contributing)
                /\ round' = [tallied EXCEPT !.outcome = "committed",
                                            !.reads = @ + 2]
                /\ UNCHANGED validator_nodes

NextV7 ==
    \/ \E input \in V7TxInputs :
           /\ added < MaxV7Clock
           /\ add_transaction(input[1], input[2], input[3])
           /\ UNCHANGED <<powvars, fragvars, quadvars, racevars, loopvars,
                          enhvars>>
    \/ \E input \in RegistrationInputs :
           /\ stencil_register_version(input[1], input[2])
           /\ UNCHANGED <<powvars, fragvars, quadvars, racevars, loopvars,
                          enhvars>>
    \/ /\ round.id < MaxV7Rounds
       /\ v7_process_block_creation_cycle
       /\ UNCHANGED loopvars

SpecV7 == InitV7 /\ [][NextV7]_vars

(***************************************************************************)
(* The two ledgers that chain their blocks by hash, side by side: the      *)
(* attestation ledger of simulator_v8.py and the mined ledger of           *)
(* blockchain.py, each started as its program starts it and run by the     *)
(* operations of its own                                                   *)
(***************************************************************************)
InitLedgers == Init \/ InitPow

\* the operations of the mined ledger: funding, add_transaction,
\* sign_transaction and mine_pending_transactions
NextMined ==
    \/ \E input \in FundingInputs :
           /\ distribute_initial_funds(input[1], input[2])
           /\ UNCHANGED <<sha, v8vars, fragvars, quadvars, racevars,
                          loopvars, enhvars>>
    \/ \E input \in PowTxInputs :
           /\ pow_add_transaction(input[1], input[2], input[3], input[4])
           /\ UNCHANGED <<sha, v8vars, fragvars, quadvars, racevars,
                          loopvars, enhvars>>
    \/ \E k \in 1..Len(pow_pending) :
           /\ sign_pending(k)
           /\ UNCHANGED <<sha, v8vars, fragvars, quadvars, racevars,
                          loopvars, enhvars>>
    \/ \E miner \in MinerAddresses, nonce \in 0..MaxNonce :
           /\ mine_pending_transactions(miner, nonce)
           /\ UNCHANGED <<sha, v8vars, fragvars, quadvars, racevars,
                          loopvars, enhvars>>

\* a Blockchain of simulator_v8.py has been constructed
AttestationLedger == chain # <<>> /\ performance_metrics = <<>>

\* a Blockchain of blockchain.py has been constructed
MinedLedger == pow_chain # <<>>

NextLedgers ==
    \/ AttestationLedger /\ Next
    \/ MinedLedger /\ NextMined

SpecLedgers == InitLedgers /\ [][NextLedgers]_vars

(***************************************************************************)
(* The two programs that keep a stake and a reputation for their nodes,    *)
(* side by side: simulator_v8.py with its rounds, slashes and rewards, and *)
(* EnhancedBlockchain with its rounds and attacks                          *)
(***************************************************************************)
InitStandings == Init \/ InitEnhanced

\* an EnhancedBlockchain has been constructed
EnhancedLedger == performance_metrics # <<>>

NextStandings ==
    \/ AttestationLedger /\ Next
    \/ EnhancedLedger /\ NextEnhanced

SpecStandings == InitStandings /\ [][NextStandings]_vars

(***************************************************************************)
(* Properties of the attestation-consensus ledger                          *)
(***************************************************************************)
\* a step in which a call of process_block_creation_cycle with transactions
\* pending returns: the round is run
RoundStep == round'.id = round.id + 1

\* the neural nodes a round that begins in this state asks for attestations
EligibleAttesters ==
    {i \in 1..Len(neural_nodes) :
        /\ is_compliant(versions, neural_nodes[i])
        /\ neural_nodes[i].reputation >= 50}

Members(seq) == {seq[k] : k \in 1..Len(seq)}

Treasury(bal) == DictGet(bal, treasury_address)

\* the attestations of the round that claim the hash
Support(hash) ==
    Cardinality({k \in 1..Len(round'.attested) : round'.attested[k] = hash})

\* the plurality hash of the round: the most attested hash, of several the
\* one attested first
Plurality ==
    round'.attested[
        CHOOSE k \in 1..Len(round'.attested) :
            /\ \A l \in 1..Len(round'.attested) :
                   Support(round'.attested[l]) <= Support(round'.attested[k])
            /\ \A l \in 1..(k - 1) :
                   Support(round'.attested[l]) < Support(round'.attested[k])]

\* the stored hash of every block of the attestation ledger is the hash
\* recomputed over its other fields, and every block after the first names
\* the stored hash of the block before it
AttestedChainHashLinked ==
    /\ \A i \in 1..Len(chain) :
          chain[i].block_hash
              = abbreviated(sha, hash_data(block_dump(chain[i])))
    /\ \A i \in 2..Len(chain) :
          chain[i].previous_hash = chain[i - 1].block_hash

\* the same of the mined ledger
MinedChainHashLinked ==
    /\ \A i \in 1..Len(pow_chain) :
          pow_chain[i].block_hash = pow_calculate_hash(pow_chain[i])
    /\ \A i \in 2..Len(pow_chain) :
          pow_chain[i].previous_hash = pow_chain[i - 1].block_hash

\* C1: after any sequence of add_transaction and consensus rounds of the
\* attestation ledger, and of add_transaction and mine_pending_transactions
\* of the mined ledger, every block of the chain stores the hash recomputed
\* over its other fields, and every block after the first names the stored
\* hash of the block before it.
C1_ChainHashLinked ==
    /\ AttestationLedger => AttestedChainHashLinked
    /\ MinedLedger => MinedChainHashLinked

\* two blocks have been mined behind the genesis block of the mined ledger,
\* the first with a transfer beside the reward
C1_Witness ==
    /\ Len(pow_chain) >= 3
    /\ Len(pow_chain[2].transactions) >= 2
    /\ tampered = 0

\* C3 for the rounds of simulator_v8.py: a round with N eligible attesters
\* commits a block if and only if the plurality proof hash is the expected
\* one and has at least floor(N*2/3)+1 attestations, and otherwise aborts
\* with the batch back in the buffer; with 7 honest of 10 it commits, with 6
\* honest of 9 it aborts.
C3_CommitIffQuorum ==
    [][ (RoundStep /\ round'.attested # <<>>) =>
          LET N == Len(round'.participants)
              quorum == ((N * 2) \div 3) + 1
              committed == Len(chain') = Len(chain) + 1
              aborted == chain' = chain
                           /\ pending_transactions' = pending_transactions
          IN  /\ Members(round'.participants) = EligibleAttesters
              /\ N = Cardinality(EligibleAttesters)
              /\ Len(round'.attested) = N
              /\ committed <=> (/\ Plurality = round'.expected
                                /\ Support(Plurality) >= quorum)
              /\ committed \/ aborted
              /\ (N = 10 /\ Support(round'.expected) = 7) => committed
              /\ (N = 9 /\ Support(round'.expected) = 6) => aborted ]_vars

\* what a round does to its attesters if it slashes, by slash, exactly those
\* whose hash is not the plurality hash, each once
DisagreeingSlashedOnce(slash(_)) ==
    (RoundStep /\ round'.attested # <<>>) =>
        LET part == round'.participants
            disagreeing ==
                {part[k] : k \in {k \in 1..Len(part) :
                                    round'.attested[k] # Plurality}}
            Taken(i) == neural_nodes[i].stake - slash(neural_nodes[i]).stake
            RECURSIVE TakenOf(_)
            TakenOf(nodes) ==
                IF nodes = {} THEN 0
                ELSE LET i == CHOOSE n \in nodes : TRUE
                     IN  Taken(i) + TakenOf(nodes \ {i})
        IN  /\ \A i \in 1..Len(neural_nodes) :
                  IF i \in disagreeing
                  THEN /\ neural_nodes'[i].stake = slash(neural_nodes[i]).stake
                       /\ neural_nodes'[i].reputation
                              = slash(neural_nodes[i]).reputation
                  ELSE /\ neural_nodes'[i].stake = neural_nodes[i].stake
                       /\ neural_nodes'[i].reputation
                              >= neural_nodes[i].reputation
            /\ Treasury(balances') - Treasury(balances)
                   = TakenOf(disagreeing) * BalanceUnit

\* C4 as stated, for the rounds of simulator_v7.py: in a round that reaches
\* the tally, every eligible attester whose proof hash is not the plurality
\* hash is slashed exactly once, whether the round commits or aborts, and no
\* attester that claimed the plurality hash is slashed.
C4_DisagreeingSlashedOnce ==
    [][ DisagreeingSlashedOnce(v7_slash_node) ]_vars

\* the same for the rounds of simulator_v8.py
C4_V8DisagreeingSlashedOnce ==
    [][ DisagreeingSlashedOnce(slash_node) ]_vars

\* a round of simulator_v7.py has failed with two of its three attesters on
\* the expected hash, which is the plurality, and both have been slashed
C4_Witness ==
    /\ round.outcome = "aborted"
    /\ Len(round.participants) = 3
    /\ round.winning_count = 2
    /\ \A k \in 1..Len(round.participants) :
          neural_nodes[round.participants[k]].stake
              = initial_stake - v7_slashing_penalty

\* C5 as stated: a round that appends no block (the proposer rejected, no
\* eligible attester, the plurality not the expected hash, or the quorum
\* missed) leaves the pending buffer holding exactly the transactions it held
\* before the round, in the same order.
C5_AbortKeepsPending ==
    [][ RoundStep =>
          /\ round'.outcome \in {"proposer_rejected", "no_attesters", "aborted"}
                <=> chain' = chain
          /\ chain' = chain => pending_transactions' = pending_transactions
      ]_vars

\* a round of simulator_v7.py has failed at the tally and the buffer is
\* empty, the transaction of the round in no block
C5_Witness ==
    /\ round.outcome = "aborted"
    /\ round.attested # <<>>
    /\ pending_transactions = <<>>
    /\ Len(chain) = 1

\* C6 as stated: in every call of slash_node the stake changes if and only
\* if the reputation changes.
C6_StakeIffReputation ==
    [][ /\ \A i \in 1..Len(validator_nodes) :
              validator_nodes'[i].stake # validator_nodes[i].stake
                  <=> validator_nodes'[i].reputation # validator_nodes[i].reputation
        /\ \A i \in 1..Len(neural_nodes) :
              neural_nodes'[i].stake # neural_nodes[i].stake
                  <=> neural_nodes'[i].reputation # neural_nodes[i].reputation
      ]_vars

\* what one call of slash_node does to the node it is given
SlashedInOneStep(before, after, credited) ==
    IF before.stake > 0
    THEN /\ after.stake = before.stake - Min(before.stake, 100)
         /\ after.reputation = Max(0, before.reputation - 50)
         /\ credited = Min(before.stake, 100) * BalanceUnit
    ELSE /\ after = before
         /\ credited = 0

\* C6: a call of slash_node on a node with stake left takes min(stake,
\* penalty) from the stake, credits it to the treasury and sets the
\* reputation to max(0, reputation - 0.5), all in the one step, so the
\* reputation stays as it was only where it is already 0; a call on a node
\* without stake changes nothing.
C6_SlashUpdatesBoth ==
    [][ /\ round'.id = round.id + 1
        /\ IF round'.proposer # 0
           THEN /\ SlashedInOneStep(validator_nodes[round'.proposer],
                                    validator_nodes'[round'.proposer],
                                    Treasury(balances') - Treasury(balances))
                /\ neural_nodes' = neural_nodes
           ELSE /\ SlashedInOneStep(neural_nodes[round'.participants[1]],
                                    neural_nodes'[round'.participants[1]],
                                    Treasury(balances') - Treasury(balances))
                /\ validator_nodes' = validator_nodes ]_vars

\* a validator without reputation has been slashed down to its last stake,
\* and once more
C6_Witness ==
    /\ round.outcome = "slash_node"
    /\ round.id >= 2
    /\ validator_nodes[1].stake = 0
    /\ validator_nodes[1].reputation = 0
    /\ Treasury(balances) >= initial_stake * BalanceUnit

\* C10: a node whose reputation is under the floor attests in no round, has
\* no proposal of its accepted, is paid no reward, and its reputation does
\* not rise, in any step of any behaviour.
C10_NeverRewardedAgain ==
    [][ /\ \A i \in 1..Len(neural_nodes) :
              neural_nodes[i].reputation < 50 =>
                  /\ neural_nodes'[i].reputation <= neural_nodes[i].reputation
                  /\ balances'[neural_nodes[i].address]
                         = balances[neural_nodes[i].address]
                  /\ RoundStep => i \notin Members(round'.participants)
        /\ \A j \in 1..Len(validator_nodes) :
              validator_nodes[j].reputation < 50 =>
                  /\ validator_nodes'[j].reputation
                         <= validator_nodes[j].reputation
                  /\ balances'[validator_nodes[j].address]
                         = balances[validator_nodes[j].address]
                  /\ (RoundStep /\ round'.proposer = j) =>
                         /\ round'.outcome = "proposer_rejected"
                         /\ round'.attested = <<>>
                         /\ chain' = chain ]_vars

\* a block has been committed without the attester that lost its
\* reputation, which runs registered software and has stake left
C10_Witness ==
    /\ round.outcome = "committed"
    /\ \E i \in 1..Len(neural_nodes) :
          /\ neural_nodes[i].reputation < 50
          /\ neural_nodes[i].stake > 0
          /\ is_compliant(versions, neural_nodes[i])
          /\ \A k \in 1..Len(round.participants) : round.participants[k] # i

(***************************************************************************)
(* Properties of the mined ledger                                          *)
(***************************************************************************)
\* C2 as stated: after every settlement every account other than the
\* minting sender has a balance of at least 0, add_transaction having
\* rejected whatever would take one below.
C2_BalancesNonNegative ==
    \A account \in DOMAIN pow_balances :
        account # MintingSender => pow_balances[account] >= 0

\* C7 as stated: once any one field of any block of the chain, the genesis
\* block included, has been changed, is_chain_valid() returns False.
C7_TamperDetected ==
    tampered # 0 => ~is_chain_valid(pow_chain)

(***************************************************************************)
(* Properties of the fragment store                                        *)
(***************************************************************************)
\* the payload a redundancy fragment yields when its mask is taken off again
unmasked(fragment) ==
    XorZip(fragment.data,
           Pattern(fragment.fragment_id.base, fragment.fragment_id.r, fragment.data))

\* some surviving node holds the primary fragment of base, or a redundancy
\* fragment that unmasks to the payload, byte for byte
Reconstructible(base) ==
    \E i \in 1..Len(node_fragments) :
        \E j \in 1..Len(node_fragments[i].fragments) :
            LET fragment == node_fragments[i].fragments[j]
            IN  /\ fragment.fragment_id.base = base
                /\ IF fragment.fragment_id.r = primary
                   THEN fragment.data = payload[base].data
                   ELSE unmasked(fragment) = payload[base].data

\* the custodians of base that failed after its distribution
FailedCustodians(base) ==
    {payload[base].target_nodes[i] : i \in 1..Len(payload[base].target_nodes)}
        \cap failed_nodes

\* base was distributed over four different nodes, none of which had failed
OnFourCustodians(base) ==
    /\ base \in DOMAIN payload
    /\ Len(payload[base].target_nodes) = 4
    /\ Cardinality({payload[base].target_nodes[i] : i \in 1..4}) = 4
    /\ payload[base].failed_before = {}

\* C8: a fragment distributed with redundancy 3 over 4 custodians, 2 of which
\* have failed, can be reconstructed byte for byte from what the surviving
\* nodes hold; and when all 4 have failed, a loss has been reported.
C8_TwoFailuresRecoverable ==
    \A base \in FragmentIds :
        OnFourCustodians(base) =>
            /\ Cardinality(FailedCustodians(base)) = 2 => Reconstructible(base)
            /\ Cardinality(FailedCustodians(base)) = 4 => loss_reports >= 1

\* the part of C8 on the loss report alone
C8_LossReported ==
    \A base \in FragmentIds :
        OnFourCustodians(base) /\ Cardinality(FailedCustodians(base)) = 4
            => loss_reports >= 1

\* the part of C8 on reconstruction, for payloads no longer than a digest
C8_ShortPayloadRecoverable ==
    \A base \in FragmentIds :
        (/\ OnFourCustodians(base)
         /\ Len(payload[base].data) <= DigestLen
         /\ Cardinality(FailedCustodians(base)) = 2) => Reconstructible(base)

(***************************************************************************)
(* Properties of the quadrit codec                                         *)
(***************************************************************************)
\* C9: decoding the quadrits of a byte string gives the byte string back, the
\* empty one included, and a byte string of n bytes has 4 * n quadrits.
C9_RoundTrip ==
    /\ q_pc \in {"encoded", "decoded"} => Len(q_quadrits) = 4 * Len(q_input)
    /\ q_pc = "decoded" => q_output = q_input
    /\ q_pc # "ValueError"

C9_Witness ==
    /\ q_pc = "decoded"
    /\ q_input = <<27, 228>>
    /\ q_quadrits = <<"A", "T", "C", "G", "G", "C", "T", "A">>
    /\ q_output = q_input

(***************************************************************************)
(* Properties of the rounds of the attestation-consensus ledger            *)
(***************************************************************************)
\* C11: the r-th round that is run (r = 0, 1, 2, ...) has the proposer
\* validators[r mod V], whatever the outcomes of the rounds before it, and
\* leaves the index at (r + 1) mod V; while the buffer is empty no round is
\* run and the index, the chain, the balances and the nodes stay as they
\* are.
C11_RoundRobin ==
    [][ /\ current_proposer_index = round.id % Len(validator_nodes)
        /\ RoundStep =>
              /\ pending_transactions # <<>>
              /\ round'.proposer = (round.id % Len(validator_nodes)) + 1
              /\ current_proposer_index'
                     = (round.id + 1) % Len(validator_nodes)
        /\ pending_transactions = <<>> =>
              UNCHANGED <<current_proposer_index, chain, balances,
                          validator_nodes, neural_nodes, round>>
      ]_vars

\* the third round, after a rejected proposer, back at the first of two
\* validators
C11_Witness ==
    /\ Len(validator_nodes) = 2
    /\ round.id = 3
    /\ round.proposer = 1
    /\ current_proposer_index = 1
    /\ validator_nodes[2].stake < initial_stake

\* what a round does if it skips, slashing by slash, the proposer that is
\* not compliant or has a reputation under the floor
ProposerSkipped(slash(_)) ==
    RoundStep =>
        LET p == round'.proposer
            node == validator_nodes[p]
            taken == node.stake - slash(node).stake
        IN  (~is_compliant(versions, node) \/ node.reputation < 50) =>
                /\ round'.outcome = "proposer_rejected"
                /\ validator_nodes'[p].stake = slash(node).stake
                /\ validator_nodes'[p].reputation = slash(node).reputation
                /\ \A j \in 1..Len(validator_nodes) :
                       j # p => validator_nodes'[j] = validator_nodes[j]
                /\ Treasury(balances') = Treasury(balances) + taken * BalanceUnit
                /\ \A a \in DOMAIN balances :
                       a # treasury_address => balances'[a] = balances[a]
                /\ DOMAIN balances' \subseteq DOMAIN balances \cup {treasury_address}
                /\ round'.participants = <<>>
                /\ round'.attested = <<>>
                /\ neural_nodes' = neural_nodes
                /\ chain' = chain

\* C12 as stated, for the rounds of simulator_v7.py: when the proposer of a
\* round is not compliant or has a reputation under the floor, the round is
\* skipped: the proposer is slashed (its stake to the treasury, its
\* reputation lowered), no attestation is collected, no neural node and no
\* other validator changes, no account but the treasury changes, and no
\* block is appended.
C12_ProposerSkipped ==
    [][ ProposerSkipped(v7_slash_node) ]_vars

\* the same for the rounds of simulator_v8.py
C12_V8ProposerSkipped ==
    [][ ProposerSkipped(slash_node) ]_vars

\* a proposer of simulator_v7.py that was slashed three times for its
\* software, which has since been registered, has had its block welded at a
\* reputation under the floor
C12_Witness ==
    /\ round.outcome = "committed"
    /\ is_compliant(versions, validator_nodes[round.proposer])
    /\ validator_nodes[round.proposer].reputation < reputation_threshold
    /\ validator_nodes[round.proposer].stake
           = initial_stake - 3 * v7_slashing_penalty
    /\ Len(chain) = 2

\* C13: a round whose proposer is compliant and reputable and that aborts
\* at the tally (the plurality hash is not the expected one, or has no
\* quorum) leaves the stake and the reputation of its proposer, and of every
\* other validator, as they were.
C13_AbortSparesProposer ==
    [][ (RoundStep /\ round'.attested # <<>> /\ chain' = chain) =>
          /\ round'.outcome = "aborted"
          /\ is_compliant(versions, validator_nodes[round'.proposer])
          /\ validator_nodes[round'.proposer].reputation >= 50
          /\ \/ Plurality # round'.expected
             \/ Support(Plurality) < ((Len(round'.participants) * 2) \div 3) + 1
          /\ \A j \in 1..Len(validator_nodes) :
                /\ validator_nodes'[j].stake = validator_nodes[j].stake
                /\ validator_nodes'[j].reputation = validator_nodes[j].reputation
          /\ balances'[validator_nodes[round'.proposer].address]
                 = balances[validator_nodes[round'.proposer].address] ]_vars

\* a round aborted for want of a quorum, with attesters slashed and the
\* proposer at its full stake and reputation
C13_Witness ==
    /\ round.outcome = "aborted"
    /\ round.winning = round.expected
    /\ round.winning_count < round.threshold
    /\ validator_nodes[round.proposer].stake = initial_stake
    /\ validator_nodes[round.proposer].reputation = initial_reputation
    /\ \E i \in 1..Len(neural_nodes) : neural_nodes[i].stake < initial_stake

\* the proposer and the attesters on the winning proof of the round are paid
\* their shares and raised in reputation (clamped at 1), and no other node
\* is paid or raised
RewardsPaid ==
    LET p == round'.proposer
        part == round'.participants
        winners == {part[k] : k \in {k \in 1..Len(part) :
                                       round'.attested[k] = round'.winning}}
        per_node == (80 * BalanceUnit) \div Cardinality(winners)
    IN  /\ winners # {}
        /\ balances'[validator_nodes[p].address]
               = balances[validator_nodes[p].address] + 20 * BalanceUnit
        /\ validator_nodes'[p].reputation
               = Min(100, validator_nodes[p].reputation + 5)
        /\ validator_nodes'[p].stake = validator_nodes[p].stake
        /\ \A j \in 1..Len(validator_nodes) :
               j # p =>
                   /\ validator_nodes'[j] = validator_nodes[j]
                   /\ balances'[validator_nodes[j].address]
                          = balances[validator_nodes[j].address]
        /\ \A i \in 1..Len(neural_nodes) :
               IF i \in winners
               THEN /\ balances'[neural_nodes[i].address]
                           = balances[neural_nodes[i].address] + per_node
                    /\ neural_nodes'[i].reputation
                           = Min(100, neural_nodes[i].reputation + 2)
                    /\ neural_nodes'[i].stake = neural_nodes[i].stake
               ELSE /\ balances'[neural_nodes[i].address]
                           = balances[neural_nodes[i].address]
                    /\ neural_nodes'[i].reputation
                           <= neural_nodes[i].reputation

\* C14: when a round commits (its block is appended to the chain), the
\* proposer and every attester on the winning proof hash are rewarded:
\* balance credited, reputation raised by the fixed increment and clamped at
\* 1; and no other node is rewarded in that round.
C14_CommitRewards ==
    [][ (RoundStep /\ Len(chain') = Len(chain) + 1) => RewardsPaid ]_vars

\* the part of C14 on rounds whose settlement runs to its end
C14_SettledRoundRewards ==
    [][ (RoundStep /\ round'.outcome = "committed") => RewardsPaid ]_vars

\* the round has ended without a block
NoBlock ==
    /\ RoundStep
    /\ round'.outcome \in {"proposer_rejected", "no_attesters", "aborted"}

\* the stake the nodes have lost in the step
StakeTaken ==
    LET RECURSIVE Sum(_, _, _)
        Sum(before, after, i) ==
            IF i = 0 THEN 0
            ELSE (before[i].stake - after[i].stake) + Sum(before, after, i - 1)
    IN  Sum(validator_nodes, validator_nodes', Len(validator_nodes))
            + Sum(neural_nodes, neural_nodes', Len(neural_nodes))

\* C15 as stated: after any round that aborts, the balances map is identical
\* to the balances map before the round.
C15_AbortKeepsBalances ==
    [][ NoBlock => balances' = balances ]_vars

\* C15: after any round that aborts no transaction of the batch has been
\* applied: every account other than the treasury has the balance it had
\* before the round, and the treasury has grown by exactly the stake that
\* was slashed in the round.
C15_AbortAppliesNoTransaction ==
    [][ NoBlock =>
          /\ \A a \in DOMAIN balances :
                a # treasury_address => balances'[a] = balances[a]
          /\ DOMAIN balances' \subseteq DOMAIN balances \cup {treasury_address}
          /\ Treasury(balances') = Treasury(balances) + StakeTaken * BalanceUnit
          /\ StakeTaken = 0 => balances' = balances ]_vars

\* a round aborted at the tally with a payable transfer in its batch and an
\* attester slashed
C15_Witness ==
    /\ round.outcome = "aborted"
    /\ \E k \in 1..Len(pending_transactions) :
           /\ pending_transactions[k].sender = "Alice"
           /\ pending_transactions[k].amount > 0
    /\ balances["Alice"] = InitialFunds * BalanceUnit
    /\ "Bob" \notin DOMAIN balances
    /\ Treasury(balances) > 0

(***************************************************************************)
(* Properties of the registry of software hashes                           *)
(***************************************************************************)
\* the hash the registry was last given for the version, if it was given one
LastRegistered(version, hash) ==
    \E k \in 1..Len(stencil_log) :
        /\ stencil_log[k].version = version
        /\ stencil_log[k].hash = hash
        /\ \A later \in (k + 1)..Len(stencil_log) :
               stencil_log[later].version # version

\* C16: a node is compliant iff the registry has an entry for the node's
\* version and the entry, the hash last registered for that version, is the
\* node's own software hash; so a node whose version was never registered
\* is not compliant, and a node whose version was registered again with
\* another hash is not compliant from then on.
C16_CompliantIffRegisteredHash ==
    \A i \in 1..Len(neural_nodes) :
        LET node == neural_nodes[i]
        IN  /\ is_compliant(versions, node)
                <=> LastRegistered(node.software_version, node.software_hash)
            /\ is_compliant(versions, node)
                <=> /\ node.software_version \in DOMAIN versions
                    /\ versions[node.software_version] = node.software_hash
            /\ (\A k \in 1..Len(stencil_log) :
                    stencil_log[k].version # node.software_version)
                   => ~is_compliant(versions, node)

\* the official version registered with the hash of its nodes and then with
\* another hash: its node is compliant no more, while the node of the beta
\* version, registered in between, is
C16_Witness ==
    /\ Len(stencil_log) = 3
    /\ stencil_log[1] = [version |-> OfficialVersion,
                         hash |-> neural_nodes[1].software_hash]
    /\ stencil_log[2] = [version |-> BetaVersion,
                         hash |-> neural_nodes[2].software_hash]
    /\ stencil_log[3].version = OfficialVersion
    /\ stencil_log[3].hash # neural_nodes[1].software_hash
    /\ ~is_compliant(versions, neural_nodes[1])
    /\ is_compliant(versions, neural_nodes[2])
    /\ ~is_compliant(versions, neural_nodes[3])

(***************************************************************************)
(* Properties of the distribution and the regeneration of fragments        *)
(***************************************************************************)
\* some node holds a fragment of the base, or some location is recorded
\* for one
Stored(base) ==
    \/ \E i \in 1..Len(node_fragments) :
           \E j \in 1..Len(node_fragments[i].fragments) :
               node_fragments[i].fragments[j].fragment_id.base = base
    \/ \E id \in DOMAIN fragment_locations : id.base = base

\* C17: a distribution to fewer than 2 target nodes fails: after it no node
\* holds a fragment of the base and no location is recorded for it.
C17_FewTargetsStoreNothing ==
    [][ \A base \in FragmentIds, data \in Payloads, targets \in TargetLists :
            (Len(targets) < 2 /\ distribute_fragment(base, data, targets))
                => (~Stored(base))' ]_vars

\* C18: after a distribution to 2 or more target nodes the primary fragment
\* is located on the first target and each of the k = 3 redundancy
\* fragments on one of the targets after it.
C18_AllSiblingsLocated ==
    \A base \in DOMAIN payload :
        (Len(payload[base].target_nodes) >= 2 /\ failed_nodes = {}) =>
            /\ fragment_locations[[base |-> base, r |-> primary]]
                   = <<payload[base].target_nodes[1]>>
            /\ \A r \in 0..2 :
                   /\ [base |-> base, r |-> r] \in DOMAIN fragment_locations
                   /\ \E t \in 2..Len(payload[base].target_nodes) :
                          fragment_locations[[base |-> base, r |-> r]]
                              = <<payload[base].target_nodes[t]>>

\* the part of C18 on distributions to 4 target nodes
C18_LocatedOnFourTargets ==
    \A base \in DOMAIN payload :
        (Len(payload[base].target_nodes) = 4 /\ failed_nodes = {}) =>
            /\ fragment_locations[[base |-> base, r |-> primary]]
                   = <<payload[base].target_nodes[1]>>
            /\ \A r \in 0..2 :
                   /\ [base |-> base, r |-> r] \in DOMAIN fragment_locations
                   /\ fragment_locations[[base |-> base, r |-> r]]
                          = <<payload[base].target_nodes[r + 2]>>

\* C19: after any sequence of failures and regenerations no location record
\* names a failed node (of fragments distributed before any node failed).
C19_NoLocationOnFailedNode ==
    (\A base \in DOMAIN payload : payload[base].failed_before = {}) =>
        \A id \in DOMAIN fragment_locations :
            \A k \in 1..Len(fragment_locations[id]) :
                fragment_locations[id][k] \notin failed_nodes

\* the part of C19 on the records of the fragments the failed nodes held: a
\* location of a fragment is a failed node only where the fragment was put
\* by a regeneration, never where a distribution put it
C19_DistributedLocationsRemoved ==
    (\A base \in DOMAIN payload : payload[base].failed_before = {}) =>
        \A id \in DOMAIN fragment_locations :
            \A k \in 1..Len(fragment_locations[id]) :
                fragment_locations[id][k] \in failed_nodes =>
                    LET targets == payload[id.base].target_nodes
                    IN  fragment_locations[id][k] # targets[id.r + 2]

\* the redundancy siblings of id with a location recorded on a node that has
\* not failed
SurvivingSiblings(id) ==
    {sid \in DOMAIN fragment_locations' :
        /\ sid.base = id.base
        /\ sid.r # primary
        /\ sid # id
        /\ \E k \in 1..Len(fragment_locations'[sid]) :
               fragment_locations'[sid][k] \notin failed_nodes'}

\* the fragments that had a location and are given another one by the step
Regenerated ==
    {id \in DOMAIN fragment_locations :
        /\ fragment_locations[id] # <<>>
        /\ fragment_locations'[id] # <<>>
        /\ fragment_locations'[id] # fragment_locations[id]}

\* the fragments that had a location and are left without one by the step
LeftWithoutLocation ==
    {id \in DOMAIN fragment_locations :
        /\ fragment_locations[id] # <<>>
        /\ fragment_locations'[id] = <<>>}

\* C20: a fragment that a failure leaves with no location is regenerated,
\* with a location on a surviving node, iff a redundancy sibling of its base
\* still has a location on a surviving node; else it stays without location,
\* the loss is reported, and no regeneration is counted.
C20_RegeneratedIffSiblingSurvives ==
    [][ ( /\ \A base \in DOMAIN payload : payload[base].failed_before = {}
          /\ \E failed \in FailureLists : simulate_node_failure(failed) ) =>
          /\ \A id \in Regenerated :
                /\ SurvivingSiblings(id) # {}
                /\ \E i \in 1..Len(node_fragments') :
                       fragment_locations'[id] = <<node_fragments'[i].node>>
          /\ \A id \in LeftWithoutLocation : SurvivingSiblings(id) = {}
          /\ regeneration_count' - regeneration_count = Cardinality(Regenerated)
          /\ loss_reports' - loss_reports = Cardinality(LeftWithoutLocation)
      ]_vars

(***************************************************************************)
(* Properties of repeated failures and regenerations                       *)
(***************************************************************************)

\* every fragment was distributed before any node failed
DistributedBeforeFailures ==
    \A base \in DOMAIN payload : payload[base].failed_before = {}

\* the step leaves the location records and the count of regenerations alone
RecordsAndCountKept ==
    /\ fragment_locations' = fragment_locations
    /\ regeneration_count' = regeneration_count

\* the nodes of the list have all failed already
AlreadyFailed(failed) ==
    \A i \in 1..Len(failed) : failed[i] \in failed_nodes

\* C21: regeneration asked again for a fragment already logged as
\* regenerated, and a failure repeated for nodes that have already failed,
\* change neither the location records nor the count of regenerations.
C21_RepeatIsNoOp ==
    [][ DistributedBeforeFailures =>
          /\ \A id \in regenerating_log :
                 regenerate_fragments(<<id>>) => RecordsAndCountKept
          /\ \A failed \in FailureLists :
                 (AlreadyFailed(failed) /\ simulate_node_failure(failed))
                     => RecordsAndCountKept
      ]_vars

\* a fragment regenerated onto a surviving node is left alone when
\* regeneration is asked for it again, once or twice in one call
C21_LocatedFragmentLeftAlone ==
    [][ \A id \in regenerating_log :
            \A request \in {<<id>>, <<id, id>>} :
                (fragment_locations[id] # <<>> /\ regenerate_fragments(request))
                    => RecordsAndCountKept
      ]_vars

\* a failure repeated for nodes that have already failed changes nothing
C21_RepeatedFailureIsNoOp ==
    [][ DistributedBeforeFailures =>
            \A failed \in FailureLists :
                (AlreadyFailed(failed) /\ simulate_node_failure(failed))
                    => UNCHANGED fragvars
      ]_vars

(***************************************************************************)
(* Properties of the redundancy fragments                                  *)
(***************************************************************************)

\* the redundancy fragments of the payload distributed as base
SiblingsOf(base) ==
    generate_redundancy_fragments(
        GenomeFragment(base, primary, payload[base].data, 3))

\* sibling i of base, XOR-ed with the mask of (base, i), is the payload and
\* has the payload's checksum
SiblingDecodes(base, i) ==
    /\ unmasked(SiblingsOf(base)[i + 1]) = payload[base].data
    /\ hash_data(unmasked(SiblingsOf(base)[i + 1]))
           = hash_data(payload[base].data)

\* C22: each of the 3 redundancy siblings of a distributed payload, XOR-ed
\* with the mask derived from its fragment id and index, is the payload byte
\* for byte, whatever the payload's length.
C22_EverySiblingDecodes ==
    \A base \in DOMAIN payload : \A i \in 0..2 : SiblingDecodes(base, i)

\* the same for the payloads no longer than the digest the mask is cut from
C22_ShortPayloadDecodes ==
    \A base \in DOMAIN payload :
        Len(payload[base].data) <= DigestLen =>
            \A i \in 0..2 : SiblingDecodes(base, i)

(***************************************************************************)
(* Properties of the failures the fragment store tolerates                 *)
(***************************************************************************)

\* C23: a fragment distributed with redundancy 3 over 4 custodians is
\* reconstructible while at most 3 - 1 = 2 of its custodians have failed,
\* and a loss has been reported once more than 2 of them have failed.
C23_ToleratesKMinusOne ==
    \A base \in FragmentIds :
        OnFourCustodians(base) =>
            /\ Cardinality(FailedCustodians(base)) <= 2 => Reconstructible(base)
            /\ Cardinality(FailedCustodians(base)) > 2 => loss_reports >= 1

\* what the store does tolerate: a payload no longer than a digest survives
\* the failure of any 3 of its 4 custodians
C23_ShortPayloadSurvivesThree ==
    \A base \in FragmentIds :
        (/\ OnFourCustodians(base)
         /\ Len(payload[base].data) <= DigestLen
         /\ Cardinality(FailedCustodians(base)) <= 3) => Reconstructible(base)

(***************************************************************************)
(* Properties of the transactions the ledgers accept and settle            *)
(***************************************************************************)

\* C24: every transaction in the buffer of pending transactions, and every
\* transaction of every block of the chain, has an amount above 0.
C24_AcceptedAmountsPositive ==
    /\ \A i \in 1..Len(pending_transactions) :
           pending_transactions[i].amount > 0
    /\ \A b \in 1..Len(chain) :
           \A i \in 1..Len(chain[b].transactions) :
               chain[b].transactions[i].amount > 0

\* the same for the mined ledger of blockchain.py, whose add_transaction
\* asks Transaction.is_valid
C24_MinedAmountsPositive ==
    /\ \A i \in 1..Len(pow_pending) : pow_pending[i].amount > 0
    /\ \A b \in 1..Len(pow_chain) :
           \A i \in 1..Len(pow_chain[b].transactions) :
               pow_chain[b].transactions[i].amount > 0

\* the accounts of the users, which no slash and no reward touches
UserAccounts == {"Alice", "Bob"}

\* what the transactions take from an account and what they bring to it
RECURSIVE Sent(_, _)
Sent(account, txs) ==
    IF txs = <<>> THEN 0
    ELSE (IF Head(txs).sender = account THEN Head(txs).amount ELSE 0)
             + Sent(account, Tail(txs))

RECURSIVE Received(_, _)
Received(account, txs) ==
    IF txs = <<>> THEN 0
    ELSE (IF Head(txs).recipient = account THEN Head(txs).amount ELSE 0)
             + Received(account, Tail(txs))

\* the round has appended a block and settled its transactions: it ended
\* without error, the minting sender has no account, every user who is a
\* recipient has one, and every user's balance has lost what the user sent
\* and gained what the user received
BlockSettled ==
    LET txs == last_block(chain').transactions
    IN  /\ round'.outcome = "committed"
        /\ MintingSender \notin DOMAIN balances'
        /\ \A account \in UserAccounts :
               /\ Received(account, txs) # 0 => account \in DOMAIN balances'
               /\ DictGet(balances', account) =
                      DictGet(balances, account)
                          + (Received(account, txs) - Sent(account, txs))
                                * BalanceUnit

\* C25: the round that commits a block debits every transaction's amount
\* from its sender, the minting sender excepted, credits it to its recipient,
\* whose account it creates if need be, and ends without error.
C25_CommittedBlockSettled ==
    [][ (RoundStep /\ chain' # chain) => BlockSettled ]_vars

\* the same for the blocks that hold no transaction of the minting sender
C25_SettledWithoutMinting ==
    [][ ( /\ RoundStep
          /\ chain' # chain
          /\ Sent(MintingSender, last_block(chain').transactions) = 0 )
            => BlockSettled ]_vars

\* the same for the mined ledger of blockchain.py, which does not debit the
\* minting sender
C25_MinedBlockSettled ==
    [][ pow_chain' # pow_chain /\ tampered' = 0 =>
          LET txs == last_block(pow_chain').transactions
          IN  /\ MintingSender \notin DOMAIN pow_balances'
              /\ \A account \in UserAccounts \cup MinerAddresses :
                     /\ Received(account, txs) # 0
                            => account \in DOMAIN pow_balances'
                     /\ DictGet(pow_balances', account) =
                            DictGet(pow_balances, account)
                                + Received(account, txs) - Sent(account, txs)
      ]_vars

(***************************************************************************)
(* Properties of slash_node for every stake and reputation                 *)
(***************************************************************************)

\* the node after the call has lost min(stake, penalty), the treasury has
\* gained it, and the reputation is down by the decrement, clamped at 0
SlashedAsSpecified(before, after, credited) ==
    /\ after.stake = before.stake - Min(before.stake, slashing_penalty)
    /\ credited = Min(before.stake, slashing_penalty) * BalanceUnit
    /\ after.reputation =
           Max(0, before.reputation - slash_reputation_decrement)

\* C26: slash_node on a node of stake s >= 0 and reputation r in [0, 1]
\* leaves the stake at s - min(s, penalty), adds min(s, penalty) to the
\* treasury and leaves the reputation at max(0, r - decrement).
C26_SlashForEveryStake ==
    [][ round'.id = round.id + 1 =>
          IF round'.proposer # 0
          THEN SlashedAsSpecified(validator_nodes[round'.proposer],
                                  validator_nodes'[round'.proposer],
                                  Treasury(balances') - Treasury(balances))
          ELSE SlashedAsSpecified(neural_nodes[round'.participants[1]],
                                  neural_nodes'[round'.participants[1]],
                                  Treasury(balances') - Treasury(balances))
      ]_vars

(***************************************************************************)
(* Properties of the standing of the nodes                                 *)
(***************************************************************************)

\* the stake is not negative and the reputation lies between 0 and 1
InRange(node) ==
    /\ node.stake >= 0
    /\ node.reputation >= 0
    /\ node.reputation <= max_reputation

\* the same of a node of EnhancedBlockchain, whose reputation is a fraction
EnhancedInRange(node) ==
    /\ node.stake >= 0
    /\ node.reputation[2] > 0
    /\ node.reputation[1] >= 0
    /\ node.reputation[1] <= node.reputation[2]

\* C27: in every reachable state, after any sequence of rounds, slashes and
\* rewards of simulator_v8.py and of rounds and attacks of
\* EnhancedBlockchain, every node that has a stake and a reputation has a
\* stake of at least 0 and a reputation between 0 and 1.
C27_StandingsInRange ==
    /\ AttestationLedger =>
           /\ \A i \in 1..Len(validator_nodes) : InRange(validator_nodes[i])
           /\ \A i \in 1..Len(neural_nodes) : InRange(neural_nodes[i])
    /\ EnhancedLedger =>
           \A i \in 1..Len(neural_nodes) : EnhancedInRange(neural_nodes[i])

\* a committed round has paid a proposer whose reputation was at 1
\* already, and attesters it raised, while a node slashed in two rounds is
\* down to reputation 0
C27_Witness ==
    /\ AttestationLedger
    /\ round.outcome = "committed"
    /\ round.id >= 2
    /\ validator_nodes[round.proposer].reputation = max_reputation
    /\ \E i \in 1..Len(neural_nodes) :
           /\ neural_nodes[i].stake = initial_stake - 2 * slashing_penalty
           /\ neural_nodes[i].reputation = 0
    /\ \E i \in 1..Len(neural_nodes) :
           /\ neural_nodes[i].stake = initial_stake
           /\ neural_nodes[i].reputation = max_reputation

(***************************************************************************)
(* Properties of slash_node under concurrent rounds                        *)
(***************************************************************************)

\* the node and the balances after two calls of slash_node, one after the
\* other
SlashedTwice ==
    [node |-> slash_node(slash_node(slashers.node)),
     balances |-> slash_credit(slash_credit(slashers.balances, slashers.node),
                               slash_node(slashers.node))]

\* C28: when the two rounds' calls of slash_node on the same node have both
\* returned, however their steps were interleaved, the node's stake and
\* reputation and the treasury are those of two calls made one after the
\* other.
C28_NoLostUpdate ==
    (\A t \in Slashers : slashers.calls[t].pc = "done") =>
        /\ neural_nodes[1] = SlashedTwice.node
        /\ Treasury(balances) = Treasury(SlashedTwice.balances)

(***************************************************************************)
(* Properties of the proof the attesters of a round are given              *)
(***************************************************************************)

\* every participant of the round is honest
AllParticipantsHonest ==
    \A k \in 1..Len(round'.participants) :
        neural_nodes[round'.participants[k]].is_honest

\* C29: the proof of every block a round has welded holds the anchors of the
\* chain as it was before the round, the block not yet on it, and is the
\* expected proof of the round; in a round that reaches the attestations
\* every honest participant attests to exactly the expected proof, and a
\* round whose participants are all honest does not abort.
C29_OneProofPerRound ==
    /\ [](\A b \in 2..Len(chain) :
            LET proof == chain[b].winning_cip_proof
            IN  /\ proof.coherence_anchors_hash
                       = hash_data(get_coherence_anchors(SubSeq(chain, 1, b - 1)))
                /\ proof.coherence_anchors_hash
                       # hash_data(get_coherence_anchors(SubSeq(chain, 1, b)))
                /\ proof.rna_template_hash = chain[b].rna_template_hash)
    /\ [][ (RoundStep /\ round'.attested # <<>>) =>
             /\ \A k \in 1..Len(round'.participants) :
                    neural_nodes[round'.participants[k]].is_honest
                        => round'.attested[k] = round'.expected
             /\ Len(chain') > Len(chain) =>
                    last_block(chain').winning_cip_proof.proof_hash
                        = round'.expected
             /\ AllParticipantsHonest =>
                    /\ round'.outcome # "aborted"
                    /\ Len(chain') = Len(chain) + 1
                    /\ Plurality = round'.expected
                    /\ Support(Plurality) = Len(round'.participants)
         ]_vars

\* the second block has been committed by two honest attesters, both on
\* the proof expected, which is not the proof of the first round
C29_Witness ==
    /\ round.outcome = "committed"
    /\ Len(chain) = 3
    /\ Len(round.participants) >= 2
    /\ \A k \in 1..Len(round.participants) :
           /\ neural_nodes[round.participants[k]].is_honest
           /\ round.attested[k] = round.expected
    /\ chain[3].winning_cip_proof.proof_hash = round.expected
    /\ chain[3].winning_cip_proof.proof_hash
           # chain[2].winning_cip_proof.proof_hash

(***************************************************************************)
(* Properties of the transactions add_transaction turns away               *)
(***************************************************************************)

\* the transaction lacks a sender or a recipient, has no amount above 0, or
\* asks for more than its sender has
Unacceptable(bal, unit, input) ==
    \/ input[1] = ""
    \/ input[2] = ""
    \/ input[3] <= 0
    \/ input[1] # MintingSender /\ DictGet(bal, input[1]) < input[3] * unit

\* C30: add_transaction given a transaction without sender or recipient,
\* with an amount not above 0 or with an amount above the sender's balance
\* leaves the buffer, the balances and the chain as they are.
C30_RejectedLeavesLedger ==
    [][ \A input \in TxInputs :
            ( /\ Unacceptable(balances, BalanceUnit, input)
              /\ add_transaction(input[1], input[2], input[3]) )
                => UNCHANGED <<pending_transactions, balances, chain>>
      ]_vars

\* the part of C30 on the funds: a transaction for more than its sender has
\* is turned away
C30_UnfundedRejected ==
    [][ \A input \in TxInputs :
            ( /\ input[1] # MintingSender
              /\ DictGet(balances, input[1]) < input[3] * BalanceUnit
              /\ add_transaction(input[1], input[2], input[3]) )
                => UNCHANGED <<pending_transactions, balances, chain>>
      ]_vars

\* the same as C30 for the mined ledger of blockchain.py
C30_MinedLedgerRejects ==
    [][ \A input \in PowTxInputs :
            ( /\ Unacceptable(pow_balances, 1, input)
              /\ pow_add_transaction(input[1], input[2], input[3], input[4]) )
                => UNCHANGED <<pow_pending, pow_balances, pow_chain>>
      ]_vars

(***************************************************************************)
(* The blocks of the attestation-consensus ledger and their attestations   *)
(***************************************************************************)
\* the addresses of the attestations a block carries
Attesters(block) ==
    {block.attestations[k].node_address : k \in 1..Len(block.attestations)}

\* C31: every block after the genesis block carries attestations of its own
\* winning proof only and no attester twice, and the block a round appends
\* carries the expected proof of the round and exactly one attestation for
\* each eligible attester that claimed the winning hash: at least
\* floor(N*2/3)+1 of them for the N eligible attesters, none of a
\* non-compliant node or of a node under the reputation floor.
C31_BlockCarriesQuorum ==
    /\ [](\A b \in 2..Len(chain) :
            LET atts == chain[b].attestations
            IN  /\ \A k \in 1..Len(atts) :
                      atts[k].proof_hash = chain[b].winning_cip_proof.proof_hash
                /\ \A k, l \in 1..Len(atts) :
                      atts[k].node_address = atts[l].node_address => k = l)
    /\ [][ Len(chain') > Len(chain) =>
             LET block == chain'[Len(chain')]
                 atts == block.attestations
                 part == round'.participants
                 N == Cardinality(EligibleAttesters)
                 Claimed ==
                     {part[k] : k \in {k \in 1..Len(part) :
                                         round'.attested[k] = Plurality}}
             IN  /\ Len(chain') = Len(chain) + 1
                 /\ RoundStep
                 /\ Members(part) = EligibleAttesters
                 /\ Len(part) = N
                 /\ block.winning_cip_proof.proof_hash = round'.expected
                 /\ Plurality = round'.expected
                 /\ Attesters(block) = {neural_nodes[i].address : i \in Claimed}
                 /\ Len(atts) = Cardinality(Claimed)
                 /\ Len(atts) >= ((N * 2) \div 3) + 1
                 /\ \A k \in 1..Len(atts) :
                       /\ atts[k].proof_hash = round'.expected
                       /\ \E i \in EligibleAttesters :
                             neural_nodes[i].address = atts[k].node_address
           ]_vars

\* a block has been welded with the attestations of seven of ten attesters,
\* the three others having claimed another hash
C31_Witness ==
    /\ Len(chain) >= 2
    /\ Len(round.participants) = 10
    /\ Len(last_block(chain).attestations) = 7
    /\ Cardinality({k \in 1..10 : round.attested[k] # round.winning}) = 3

\* the first sequence is the beginning of the second
IsPrefix(s, t) == Len(s) <= Len(t) /\ SubSeq(t, 1, Len(s)) = s

\* C32: the chain only grows, and by one block a round: in every step the
\* chain before is a prefix of the chain after, a round that commits appends
\* exactly one block and a round that aborts none, no other operation writes
\* the chain, every block is numbered by its index, and the genesis block at
\* index 0 has no transactions and the previous hash "0".
C32_AppendOnly ==
    /\ [](/\ \A i \in 1..Len(chain) : chain[i].block_number = i - 1
          /\ chain[1].transactions = <<>>
          /\ chain[1].previous_hash = Literal("0"))
    /\ [][ /\ IsPrefix(chain, chain')
           /\ Len(chain') <= Len(chain) + 1
           /\ Len(chain') = Len(chain) + 1 =>
                 /\ RoundStep
                 /\ round'.winning = round'.expected
                 /\ round'.winning_count >= round'.threshold
           /\ (RoundStep /\ round'.outcome \in {"committed", "crashed"}) =>
                 Len(chain') = Len(chain) + 1
           /\ (RoundStep /\ round'.outcome
                   \in {"proposer_rejected", "no_attesters", "aborted"}) =>
                 chain' = chain ]_vars

\* a round has been turned away after a block was welded, the chain still
\* two blocks long
C32_Witness ==
    /\ Len(chain) = 2
    /\ round.id >= 2
    /\ round.outcome \in {"proposer_rejected", "no_attesters", "aborted"}
    /\ chain[2].transactions # <<>>

(***************************************************************************)
(* Properties of the decoders on sequences of any length                   *)
(***************************************************************************)
\* C33: of a sequence whose length is no multiple of 4, decode_from_quadrits
\* raises ValueError and returns no bytes, quadrits_to_bytes returns
\* ceil(n/4) bytes, those of the sequence padded on the right with 'A', and
\* both leave the sequence of the caller as it was.
C33_OddLengthDecoding ==
    [][ Len(q_quadrits) % 4 # 0 =>
          /\ q_pc' = "ValueError" => q_output' = <<>>
          /\ q_pc' = "padded" =>
                LET n == Len(q_quadrits)
                    padded == q_quadrits \o [k \in 1..(4 - (n % 4)) |-> "A"]
                IN  /\ Len(q_output') = (n + 3) \div 4
                    /\ q_output' = decode_from_quadrits(padded)
          /\ q_pc' \in {"ValueError", "padded"}
          /\ q_quadrits' = q_quadrits ]_vars

\* quadrits_to_bytes returns the bytes of the padded sequence, and
\* decode_from_quadrits leaves the sequence it refuses as it was
C33_PaddedBytesReturned ==
    [][ Len(q_quadrits) % 4 # 0 =>
          /\ q_pc' = "ValueError" =>
                q_output' = <<>> /\ q_quadrits' = q_quadrits
          /\ q_pc' = "padded" =>
                LET n == Len(q_quadrits)
                    padded == q_quadrits \o [k \in 1..(4 - (n % 4)) |-> "A"]
                IN  /\ Len(q_output') = (n + 3) \div 4
                    /\ q_output' = decode_from_quadrits(padded)
                    /\ q_quadrits' = padded
          /\ q_pc' \in {"ValueError", "padded"} ]_vars

(***************************************************************************)
(* The two indexes of the fragment store                                   *)
(***************************************************************************)
\* node_fragments[node] holds a fragment with this id
Holds(node, fragment_id) ==
    \E k \in 1..Len(FragmentsOf(node_fragments, node)) :
        FragmentsOf(node_fragments, node)[k].fragment_id = fragment_id

\* fragment_locations[fragment_id] lists the node
Listed(node, fragment_id) ==
    \E k \in 1..Len(LocationsOf(fragment_locations, fragment_id)) :
        LocationsOf(fragment_locations, fragment_id)[k] = node

\* C37: in every state of the fragment store a node is listed in
\* fragment_locations[f] if and only if node_fragments of the node holds
\* fragment f.
C37_IndexesConsistent ==
    \A node \in {Custodians[i] : i \in 1..Len(Custodians)} :
        \A fragment_id \in DOMAIN fragment_locations
                \cup {FragmentsOf(node_fragments, node)[k].fragment_id :
                          k \in 1..Len(FragmentsOf(node_fragments, node))} :
            Listed(node, fragment_id) <=> Holds(node, fragment_id)

\* the two indexes agree as long as no fragment has been regenerated
C37_ConsistentUntilRegeneration ==
    regeneration_count = 0 => C37_IndexesConsistent

(***************************************************************************)
(* Honest attesters among dishonest ones                                   *)
(***************************************************************************)
\* the participants of the round just run that attested the expected hash
HonestParticipants ==
    {round'.participants[k] :
        k \in {k \in 1..Len(round'.participants) :
                  round'.attested[k] = round'.expected}}

\* C35: in no round is an eligible attester that attested the expected proof
\* hash slashed, whatever the mix of honest and dishonest attesters.
C35_HonestNeverSlashed ==
    [][ RoundStep =>
          \A i \in HonestParticipants :
              /\ neural_nodes'[i].stake = neural_nodes[i].stake
              /\ neural_nodes'[i].reputation >= neural_nodes[i].reputation
      ]_vars

\* where the honest attesters of a round outnumber the others, none of them
\* is slashed
C35_HonestPluralityNotSlashed ==
    [][ (RoundStep /\ 2 * Cardinality(HonestParticipants)
                           > Len(round'.participants)) =>
          \A i \in HonestParticipants :
              /\ neural_nodes'[i].stake = neural_nodes[i].stake
              /\ neural_nodes'[i].reputation >= neural_nodes[i].reputation
      ]_vars

(***************************************************************************)
(* Recovery from dishonest attesters                                       *)
(***************************************************************************)
DishonestIneligible ==
    \A i \in 1..Len(neural_nodes) :
        ~neural_nodes[i].is_honest => ~eligible(versions, neural_nodes[i])

HonestEligible ==
    \A i \in 1..Len(neural_nodes) :
        (neural_nodes[i].is_honest /\ is_compliant(versions, neural_nodes[i]))
            => eligible(versions, neural_nodes[i])

\* the transactions welded into the chain
RECURSIVE WeldedTransactions(_)
WeldedTransactions(blocks) ==
    IF blocks = <<>> THEN <<>>
    ELSE Head(blocks).transactions \o WeldedTransactions(Tail(blocks))

\* every transfer of the main script is in a block, and no cycle is left to
\* run or to return
AllWelded ==
    /\ Len(WeldedTransactions(chain)) = Iterations * AddsPerIteration
    /\ pending_transactions = <<>>

\* C36: with compliant proposers of full reputation and honest eligible
\* attesters outnumbering the dishonest ones, rounds run again and again on
\* a filled buffer lead to every dishonest attester being ineligible for
\* good, a block is welded, every filled buffer leads to a committed round
\* that leaves none waiting, in the end every transfer that was added is in
\* a block, each block holding the batch its round took, and no honest
\* attester is ever ineligible.
C36_Recovery ==
    /\ <>[]DishonestIneligible
    /\ <>(Len(chain) >= 2)
    /\ (pending_transactions # <<>>)
           ~> (round.outcome = "committed" /\ pending_transactions = <<>>)
    /\ <>[]AllWelded
    /\ [][ Len(chain') > Len(chain) =>
              last_block(chain').transactions = pending_transactions ]_vars
    /\ []HonestEligible

\* the third cycle of the main script has welded the six transfers into one
\* block, after two cycles aborted by the dishonest attester, which has
\* lost its reputation and is asked no more
C36_Witness ==
    /\ script = Iterations * StatementsPerIteration
    /\ round.outcome = "committed"
    /\ round.id = Iterations
    /\ Len(chain) = 2
    /\ Len(last_block(chain).transactions) = Iterations * AddsPerIteration
    /\ Len(round.participants) = 2
    /\ \E i \in 1..Len(neural_nodes) :
           /\ ~neural_nodes[i].is_honest
           /\ is_compliant(versions, neural_nodes[i])
           /\ neural_nodes[i].reputation = 0
           /\ neural_nodes[i].stake = initial_stake - 2 * slashing_penalty
           /\ i \notin Members(round.participants)

(***************************************************************************)
(* The supply of the mined ledger                                          *)
(***************************************************************************)
\* sum(balances.values())
RECURSIVE TotalOf(_, _)
TotalOf(bal, accounts) ==
    IF accounts = {} THEN 0
    ELSE LET a == CHOOSE a \in accounts : TRUE
         IN  bal[a] + TotalOf(bal, accounts \ {a})

Supply(bal) == TotalOf(bal, DOMAIN bal)

\* the amounts of the pending transactions of the minting sender
RECURSIVE Minted(_)
Minted(txs) ==
    IF txs = <<>> THEN 0
    ELSE (IF Head(txs).sender = "Network Reward" THEN Head(txs).amount ELSE 0)
             + Minted(Tail(txs))

\* C39: add_transaction changes no balance; a call of
\* mine_pending_transactions appends exactly one block, empties the pending
\* buffer and raises the sum of all balances by the mining reward plus the
\* amounts of the pending minting transactions, the transfers between
\* accounts leaving the sum as it was.
C39_SupplyConserved ==
    [][ /\ (\E input \in PowTxInputs :
               pow_add_transaction(input[1], input[2], input[3], input[4]))
              => pow_balances' = pow_balances /\ pow_chain' = pow_chain
        /\ (\E miner \in MinerAddresses, nonce \in 0..MaxNonce :
               mine_pending_transactions(miner, nonce))
              => /\ Len(pow_chain') = Len(pow_chain) + 1
                 /\ SubSeq(pow_chain', 1, Len(pow_chain)) = pow_chain
                 /\ pow_pending' = <<>>
                 /\ Supply(pow_balances')
                        = Supply(pow_balances) + 100 + Minted(pow_pending)
      ]_vars

\* a block has been mined with a signed transfer of Alice, who was given
\* funds, and a minting transaction next to the miner's reward
C39_Witness ==
    /\ tampered = 0
    /\ Len(pow_chain) >= 2
    /\ \E b \in 2..Len(pow_chain) :
          LET txs == pow_chain[b].transactions
          IN  /\ Len(txs) >= 3
              /\ \E k \in 1..Len(txs) :
                     /\ txs[k].sender = "Alice"
                     /\ txs[k].signature = sign_transaction(txs[k]).signature
              /\ \E k \in 1..(Len(txs) - 1) : txs[k].sender = "Network Reward"
    /\ Supply(pow_balances) = 500 + 100 + 60

(***************************************************************************)
(* The identity of a transaction                                           *)
(***************************************************************************)
\* C40: two transactions that differ in sender, recipient, amount,
\* timestamp or payload are hashed from different encodings.
C40_EncodingInjective ==
    (q_pc \in {"hashed", "dumped"} /\ q_input[1] # q_input[2])
        => q_output[1] # q_output[2]

\* the dictionary structures.py dumps differs whenever the contents differ
C40_DumpInjective ==
    (q_pc = "dumped" /\ q_input[1] # q_input[2]) => q_output[1] # q_output[2]

(***************************************************************************)
(* EnhancedBlockchain: the counters of its performance report              *)
(***************************************************************************)
\* initialize_chain has put the genesis block at the head of the chain
GenesisFirst ==
    /\ chain # <<>>
    /\ "block_hash" \notin DOMAIN chain[1]

\* a call of process_enhanced_consensus with a non-empty list has returned
EnhancedRoundStep == round'.id = round.id + 1

BlockAppended ==
    /\ Len(chain') = Len(chain) + 1
    /\ SubSeq(chain', 1, Len(chain)) = chain
    /\ performance_metrics'.total_blocks = performance_metrics.total_blocks + 1
    /\ performance_metrics'.failed_consensus
           = performance_metrics.failed_consensus

RoundFailed ==
    /\ chain' = chain
    /\ performance_metrics'.failed_consensus
           = performance_metrics.failed_consensus + 1
    /\ performance_metrics'.total_blocks = performance_metrics.total_blocks

\* C34, as first stated: once initialize_chain has been called,
\* total_blocks is len(chain) - 1 and total_blocks + failed_consensus is the
\* number of rounds run
C34_CountsAfterInitialize ==
    round.initialized
        => /\ performance_metrics.total_blocks = Len(chain) - 1
           /\ performance_metrics.total_blocks
                  + performance_metrics.failed_consensus = round.id

\* C34, amended: every call of process_enhanced_consensus with a non-empty
\* list either appends one block and counts it in total_blocks, or leaves the
\* chain alone and counts a failure, never both; total_blocks +
\* failed_consensus is the number of such calls; and total_blocks is
\* len(chain) - 1 when the chain begins with the genesis block of
\* initialize_chain, len(chain) when a round appended the first block
C34_RoundOutcomes ==
    /\ [][EnhancedRoundStep
              => /\ BlockAppended \/ RoundFailed
                 /\ ~(BlockAppended /\ RoundFailed)]_vars
    /\ [](performance_metrics.total_blocks
              + performance_metrics.failed_consensus = round.id)
    /\ [](performance_metrics.total_blocks
              = IF GenesisFirst THEN Len(chain) - 1 ELSE Len(chain))

\* C34: after initialize_chain two rounds have run, one that appended a
\* block and one that failed
C34_Witness ==
    /\ GenesisFirst
    /\ round.initialized
    /\ round.id = 2
    /\ Len(chain) = 2
    /\ performance_metrics.total_blocks = 1
    /\ performance_metrics.failed_consensus = 1

\* C3 as stated, for the rounds of EnhancedBlockchain: of the N nodes asked
\* the honest ones claim the expected hash and the others one fake hash, so
\* the expected hash is the plurality with floor(N*2/3)+1 attestations
\* exactly when that many nodes are honest; 7 honest of 10 commit, 6 honest
\* of 9 abort.
C3_EnhancedCommitIffQuorum ==
    [][ EnhancedRoundStep =>
          LET N == round'.asked
              quorum == ((N * 2) \div 3) + 1
              committed == Len(chain') = Len(chain) + 1
          IN  /\ committed <=> round'.valid >= quorum
              /\ committed \/ chain' = chain
              /\ (N = 10 /\ round'.valid = 7) => committed
              /\ (N = 9 /\ round'.valid = 6) => ~committed ]_vars

\* six honest nodes of nine, the three others on the fake hash, have
\* committed a block
C3_Witness ==
    /\ round.outcome = "committed"
    /\ round.asked = 9
    /\ round.valid = 6
    /\ Len(chain) >= 1

\* the nodes of the network an attack has named
NodesAttacked ==
    {neural_nodes[i].address : i \in 1..Len(neural_nodes)} \cap failed_nodes

\* C38: the regeneration count of the report is the count of the matrix,
\* and the malicious-node count is the number of distinct nodes attacked
C38_ReportMatchesMatrix ==
    /\ performance_metrics.regeneration_events = regeneration_count
    /\ performance_metrics.malicious_nodes_detected
           = Cardinality(NodesAttacked)

\* C38, what does hold: the report agrees with the matrix until the second
\* attack, and afterwards neither count of the report falls short
C38_FirstAttackReported ==
    /\ round.attacks <= 1
           => performance_metrics.regeneration_events = regeneration_count
    /\ performance_metrics.regeneration_events >= regeneration_count
    /\ performance_metrics.malicious_nodes_detected
           >= Cardinality(NodesAttacked)

====
